---- MODULE Spec2Model ----
(***************************************************************************)
(* Render-and-cache orchestration of packages/next/server/base-server.ts:  *)
(* cache-key derivation, the response-cache producer callback of           *)
(* renderToResponseWithComponents, and the candidate walk of               *)
(* renderToResponse.                                                       *)
(*                                                                         *)
(* Strings that the code takes apart (paths, cache keys) are sequences of  *)
(* tokens: "/" is the path delimiter, ".amp" the amp suffix, "%2F" an      *)
(* encoded slash, "%E0%A4%A" a malformed escape; every other token is a    *)
(* run of ordinary characters.  Concatenation of strings is \o.            *)
(***************************************************************************)
EXTENDS Integers, Sequences, FiniteSets, TLC

(***************************************************************************)
(* Bounds                                                                  *)
(***************************************************************************)
\* number of requests the server accepts in one behaviour
MaxArrivals == 2
\* number of times a stored entry may pass its revalidate window
MaxExpiries == 1
\* executions of the producer that are counted
MaxProduced == 3
\* number of functions handed to pipe, and the largest value they map
MaxFns == 3
MaxVal == 3

(***************************************************************************)
(* Values                                                                  *)
(***************************************************************************)
\* ssgCacheKey = null; the code only ever tests the key for truthiness, so
\* null and the empty string are the same value to it
NullKey == <<>>

\* query.__nextLocale absent
NoLocale == ""

\* a request's page id as the token string the key derivation concatenates
PathTokens(pathname) ==
  CASE pathname = "/" -> <<"/">>
    [] pathname = "/404" -> <<"/", "404">>
    [] pathname = "/500" -> <<"/", "500">>
    [] pathname = "/_error" -> <<"/", "_error">>
    [] OTHER -> <<"/", pathname>>

(***************************************************************************)
(* String helpers of the key derivation                                    *)
(***************************************************************************)
\* String.prototype.split('/')
RECURSIVE SplitSlash(_)
SplitSlash(s) ==
  IF s = <<>> THEN << <<>> >>
  ELSE LET rest == SplitSlash(Tail(s))
       IN IF Head(s) = "/"
          THEN << <<>> >> \o rest
          ELSE << <<Head(s)>> \o Head(rest) >> \o Tail(rest)

\* Array.prototype.join('/')
RECURSIVE JoinSlash(_)
JoinSlash(segs) ==
  IF Len(segs) = 0 THEN <<>>
  ELSE IF Len(segs) = 1 THEN segs[1]
  ELSE segs[1] \o <<"/">> \o JoinSlash(Tail(segs))

\* decodeURIComponent throws a URIError on a malformed escape
Malformed(seg) == \E i \in 1..Len(seg) : seg[i] = "%E0%A4%A"

\* decodeURIComponent on a well-formed segment
DecodeToken(t) ==
  CASE t = "%2F" -> "/"
    [] t = "%20" -> " "
    [] OTHER -> t

\* escapePathDelimiters(seg, true): only the delimiters are encoded again
EscapeToken(t) ==
  CASE t = "/" -> "%2F"
    [] t = "#" -> "%23"
    [] t = "?" -> "%3F"
    [] OTHER -> t

EscapeDecodedSegment(seg) ==
  [i \in 1..Len(seg) |-> EscapeToken(DecodeToken(seg[i]))]

(***************************************************************************)
(* Cache-key derivation (renderToResponseWithComponents)                   *)
(***************************************************************************)
\* opts.supportsDynamicHTML left as the caller passed it
SupportsDynamicHTMLAsPassed(sdh0, isSSG, isLikeServerless, isBotRequest, amp, isSupportedDocument) ==
  sdh0

\* opts.supportsDynamicHTML after the "disable dynamic HTML" block
SupportsDynamicHTML(sdh0, isSSG, isLikeServerless, isBotRequest, amp, isSupportedDocument) ==
  IF sdh0
  THEN ~isSSG /\ ~isLikeServerless /\ ~isBotRequest /\ ~amp /\ isSupportedDocument
  ELSE sdh0

\* isPreviewMode: preview data is only looked up for pages with server
\* props or static props
IsPreviewMode(previewCookie, hasServerProps, isSSG) ==
  (hasServerProps \/ isSSG) /\ previewCookie

LocalePrefix(locale) == IF locale # NoLocale THEN <<"/", locale>> ELSE <<>>

AmpSuffix(amp) == IF amp THEN <<".amp">> ELSE <<>>

\* the key without the status-page override
RawCacheKeyOfPathOnly(pathname, resolvedUrlPathname, locale, amp, isPreviewMode, isSSG, sdh, isFlightRequest) ==
  IF isPreviewMode \/ ~isSSG \/ sdh \/ isFlightRequest
  THEN NullKey
  ELSE LocalePrefix(locale)
       \o (IF (pathname = "/" \/ resolvedUrlPathname = <<"/">>) /\ locale # NoLocale
           THEN <<>>
           ELSE resolvedUrlPathname)
       \o AmpSuffix(amp)

\* ssgCacheKey before the segments are decoded
RawCacheKey(pathname, resolvedUrlPathname, locale, amp, isPreviewMode, isSSG, sdh, isFlightRequest) ==
  LET pathKey ==
        IF isPreviewMode \/ ~isSSG \/ sdh \/ isFlightRequest
        THEN NullKey
        ELSE LocalePrefix(locale)
             \o (IF (pathname = "/" \/ resolvedUrlPathname = <<"/">>) /\ locale # NoLocale
                 THEN <<>>
                 ELSE resolvedUrlPathname)
             \o AmpSuffix(amp)
  IN IF (pathname = "/404" \/ pathname = "/500") /\ isSSG
     THEN LocalePrefix(locale) \o PathTokens(pathname) \o AmpSuffix(amp)
     ELSE pathKey

\* the decode of some segment of a non-null key throws DecodeError
KeyDecodeFails(raw) ==
  /\ raw # NullKey
  /\ \E i \in 1..Len(SplitSlash(raw)) : Malformed(SplitSlash(raw)[i])

\* the normalisation without the collapse of /index
NormalizeCacheKeyKeepingIndex(raw, pathname) ==
  IF raw = NullKey THEN NullKey
  ELSE LET segs == SplitSlash(raw)
       IN JoinSlash([i \in 1..Len(segs) |-> EscapeDecodedSegment(segs[i])])

\* split, decode + escape each segment, join, then collapse /index to /
NormalizeCacheKey(raw, pathname) ==
  IF raw = NullKey THEN NullKey
  ELSE LET segs == SplitSlash(raw)
           k == JoinSlash([i \in 1..Len(segs) |-> EscapeDecodedSegment(segs[i])])
       IN IF k = <<"/", "index">> /\ pathname = "/" THEN <<"/">> ELSE k

\* the request data the key derivation reads
KeyInput(pathname, resolved, locale, amp, previewCookie, isSSG, hasServerProps, isBotRequest, flight) ==
  [pathname |-> pathname, resolved |-> resolved, locale |-> locale, amp |-> amp,
   previewCookie |-> previewCookie, isSSG |-> isSSG, hasServerProps |-> hasServerProps,
   isBotRequest |-> isBotRequest, flight |-> flight]

\* ssgCacheKey as renderToResponseWithComponents computes it for a request
\* that came in through pipe (supportsDynamicHTML starts as !isBotRequest)
DeriveKey(in) ==
  LET sdh == SupportsDynamicHTML(~in.isBotRequest, in.isSSG, FALSE, in.isBotRequest, in.amp, TRUE)
      preview == IsPreviewMode(in.previewCookie, in.hasServerProps, in.isSSG)
      raw == RawCacheKey(in.pathname, in.resolved, in.locale, in.amp, preview, in.isSSG, sdh, in.flight)
  IN IF KeyDecodeFails(raw)
     THEN [key |-> NullKey, threw |-> TRUE]
     ELSE [key |-> NormalizeCacheKey(raw, in.pathname), threw |-> FALSE]

(***************************************************************************)
(* pipe (build/webpack/config/utils.ts)                                    *)
(***************************************************************************)
\* the values a configuration function maps, and the functions pipe may be
\* handed: each maps a value to a value, no two of them commute
PipeValues == 0..MaxVal
PipeFns == {"inc", "dbl", "zero"}

\* next(value): the function named f called with value
ApplyFn(f, value) ==
  CASE f = "inc" -> (value + 1) % (MaxVal + 1)
    [] f = "dbl" -> (2 * value) % (MaxVal + 1)
    [] OTHER -> 0

\* the argument lists pipe may be called with
FnLists == UNION { [1..n -> PipeFns] : n \in 0..MaxFns }

\* no call of pipe(...fns)(param) has been made
NoPipe ==
  [phase |-> "idle", fns |-> <<>>, param |-> 0, result |-> 0, pos |-> 0,
   running |-> FALSE, started |-> <<>>]

\* a reduce that hands its callbacks the functions from the right
NextFnFromRight(p) == Len(p.fns) - p.pos

\* the index of the function reduce hands to the callback that is awaiting
\* the result of the callbacks before it
NextFn(p) == p.pos + 1

(***************************************************************************)
(* State                                                                   *)
(***************************************************************************)
VARIABLES
  cfg,       \* server construction: dev, minimalMode, the manifests
  cache,     \* the store: cache key -> stored entry
  execs,     \* response generators in flight in the store
  task,      \* per request slot: the request and where its task stands
  lastRun,   \* the most recent execution of the producer callback
  arrivals,  \* requests accepted so far
  expiries,  \* revalidate windows that have passed so far
  produced,  \* executions of the producer callback so far
  load,      \* the traffic: how requests may follow or overlap each other
  keyReq,    \* key derivation on its own: the two requests compared
  keyRes,    \* key derivation on its own: their derived keys
  piped      \* build/webpack/config/utils.ts: one call of pipe(...fns)(param)

vars == <<cfg, load, cache, execs, task, lastRun, arrivals, expiries, produced, keyReq, keyRes,
          piped>>

Reqs == {1, 2}

\* the URL path every modelled request asks for, and the keys it can touch
UrlPath == <<"/", "blog", "/", "hello">>
StatusKey == <<"/", "404">>
Keys == {UrlPath, StatusKey}

(***************************************************************************)
(* Pages (findPageComponents, hasPage, the prerender manifest)             *)
(***************************************************************************)
LiteralPage == "/blog/hello"
DynamicPage == "/blog/[slug]"
CatchAllPage == "/[...all]"

\* this.dynamicRoutes, most specific first
DynamicRoutes == <<DynamicPage, CatchAllPage>>

\* isDynamicRoute(pathname)
IsDynamicRoute(page) == page \in {DynamicPage, CatchAllPage}

\* findPageComponents(page) !== null
PageExists(page) ==
  CASE page = DynamicPage -> TRUE
    [] page = LiteralPage -> cfg.hasLiteral
    [] page = CatchAllPage -> cfg.hasCatchAll
    [] page = "/404" -> cfg.page404 # "none"
    [] page = "/500" -> cfg.page500
    [] page = "/_error" -> TRUE
    [] OTHER -> FALSE

\* typeof components.Component === 'string' (automatically static page)
IsStaticComponent(page) ==
  page \in {LiteralPage, "/500"} \/ (page = "/404" /\ cfg.page404 = "static")

\* !!components.getStaticProps
IsSSGPage(page) == page = DynamicPage \/ (page = "/404" /\ cfg.page404 = "ssg")

\* !!components.getServerSideProps; the catch-all page has it, or only
\* getInitialProps
HasServerProps(page) == page = CatchAllPage /\ cfg.catchAllProps

\* !!components.getStaticPaths
HasStaticPaths(page) == page = DynamicPage

\* dynamicRoute.match(pathname) for the modelled URL
RouteMatches(page) == page \in {DynamicPage, CatchAllPage}

\* getStaticPaths(pathname).fallbackMode from the manifest's fallback field
FallbackModeOf(fallbackField) ==
  CASE fallbackField = "string" -> "static"
    [] fallbackField = "null" -> "blocking"
    [] OTHER -> "false"

\* getStaticPaths(pathname).staticPaths
StaticPathsKnown == FALSE

(***************************************************************************)
(* Cache entries and what the renderer can return                          *)
(***************************************************************************)
\* revalidate: undefined, false, or a number of seconds
RevUndefined == [defined |-> FALSE, never |-> FALSE, secs |-> 0]
RevFalse == [defined |-> TRUE, never |-> TRUE, secs |-> 0]
RevSeconds(n) == [defined |-> TRUE, never |-> FALSE, secs |-> n]

\* the revalidate a full render gets when the renderer left it undefined
DefaultRevalidate == 1

\* a revalidate window the renderer may ask for
RenderRevalidate == 10

NoEntry ==
  [kind |-> "NONE", html |-> "none", pageData |-> "none", rid |-> 0, revalidate |-> RevUndefined]

\* what renderHTML leaves in renderOpts: isNotFound, isRedirect, a body or
\* none, a revalidate; or it throws
RenderOutcomes ==
  { [kind |-> "PAGE", revalidate |-> RevSeconds(RenderRevalidate)],
    [kind |-> "PAGE", revalidate |-> RevSeconds(0)],
    [kind |-> "PAGE", revalidate |-> RevUndefined],
    [kind |-> "PAGE", revalidate |-> RevFalse],
    [kind |-> "NOT_FOUND", revalidate |-> RevSeconds(RenderRevalidate)],
    [kind |-> "REDIRECT", revalidate |-> RevSeconds(RenderRevalidate)],
    [kind |-> "NO_BODY", revalidate |-> RevUndefined],
    [kind |-> "THROW", revalidate |-> RevUndefined] }

\* results of the producer callback / of responseCache.get
Returned(entry) == [tag |-> "entry", error |-> "none", entry |-> entry]
ReturnedNull == [tag |-> "null", error |-> "none", entry |-> NoEntry]
Threw(error) == [tag |-> "throw", error |-> error, entry |-> NoEntry]
Render404AndNull == [tag |-> "skip404", error |-> "none", entry |-> NoEntry]

\* doRender: value null for isNotFound, REDIRECT for isRedirect, a null
\* result when there is no body, else a PAGE with the rendered html
DoRender(o, rid, html) ==
  CASE o.kind = "THROW" -> Threw("RenderError")
    [] o.kind = "NOT_FOUND" ->
         Returned([kind |-> "NOT_FOUND", html |-> "none", pageData |-> "none", rid |-> rid,
                   revalidate |-> o.revalidate])
    [] o.kind = "REDIRECT" ->
         Returned([kind |-> "REDIRECT", html |-> "none", pageData |-> "none", rid |-> rid,
                   revalidate |-> o.revalidate])
    [] o.kind = "NO_BODY" -> ReturnedNull
    [] OTHER ->
         Returned([kind |-> "PAGE", html |-> html, pageData |-> "pageProps", rid |-> rid,
                   revalidate |-> o.revalidate])

(***************************************************************************)
(* The producer callback passed to responseCache.get                       *)
(***************************************************************************)
\* { staticPaths, fallbackMode } of the page, false without getStaticPaths
DeclaredMode(page) ==
  IF HasStaticPaths(page) THEN FallbackModeOf(cfg.fallbackField) ELSE "false"

\* the fallback mode without bot detection
BotModeIgnoringBots(mode, isBotRequest) == mode

\* a bot never gets the static fallback
BotMode(mode, isBotRequest) ==
  IF mode = "static" /\ isBotRequest THEN "blocking" ELSE mode

\* the skip that is also taken in minimal mode
SkipsManualRevalidateInEveryMode(c, hadCache) ==
  c.isManualRevalidate /\ c.revalidateOnlyGenerated /\ ~hadCache

\* the skip taken for generated paths instead of ungenerated ones
SkipsManualRevalidateOfGenerated(c, hadCache) ==
  c.isManualRevalidate /\ c.revalidateOnlyGenerated /\ hadCache /\ ~cfg.minimalMode

\* skip manual revalidate if cache is not present and
\* revalidate-if-generated is set
SkipsManualRevalidate(c, hadCache) ==
  c.isManualRevalidate /\ c.revalidateOnlyGenerated /\ ~hadCache /\ ~cfg.minimalMode

\* the escalation that allows a manual revalidate for prerendered paths
\* only
ManualModeOnlyWithCache(mode, isManualRevalidate, hadCache) ==
  IF isManualRevalidate THEN (IF hadCache THEN "blocking" ELSE "false") ELSE mode

\* the fallback mode without the manual-revalidate escalation
ManualModeNoEscalation(mode, isManualRevalidate, hadCache) == mode

\* only allow manual revalidate for fallback: true/blocking or for
\* prerendered fallback: false paths
ManualMode(mode, isManualRevalidate, hadCache) ==
  IF isManualRevalidate /\ (mode # "false" \/ hadCache) THEN "blocking" ELSE mode

\* fallbackMode as the skeleton-or-block decision sees it
EffectiveMode(c, hadCache) ==
  ManualMode(BotMode(DeclaredMode(c.page), c.isBotRequest), c.isManualRevalidate, hadCache)

\* the fallback decision without its test for a dynamic page id
TakesFallbackPathOnAnyPage(c, mode, didRespond) ==
  /\ ~cfg.minimalMode
  /\ mode # "blocking"
  /\ c.key # NullKey
  /\ ~didRespond
  /\ ~c.isPreviewMode
  /\ (~cfg.dev \/ ~StaticPathsKnown)

\* the fallback decision without its test for a response already begun
TakesFallbackPathAfterResponse(c, mode, didRespond) ==
  /\ ~cfg.minimalMode
  /\ mode # "blocking"
  /\ c.key # NullKey
  /\ ~c.isPreviewMode
  /\ IsDynamicRoute(c.page)
  /\ (~cfg.dev \/ ~StaticPathsKnown)

\* the fallback decision without its test for blocking mode
TakesFallbackPathIgnoringBlocking(c, mode, didRespond) ==
  /\ ~cfg.minimalMode
  /\ c.key # NullKey
  /\ ~didRespond
  /\ ~c.isPreviewMode
  /\ IsDynamicRoute(c.page)
  /\ (~cfg.dev \/ ~StaticPathsKnown)

\* the condition under which the producer does not simply block on a render
TakesFallbackPath(c, mode, didRespond) ==
  /\ ~cfg.minimalMode
  /\ mode # "blocking"
  /\ c.key # NullKey
  /\ ~didRespond
  /\ ~c.isPreviewMode
  /\ IsDynamicRoute(c.page)
  /\ (~cfg.dev \/ ~StaticPathsKnown)

\* the abort without its production disjunct
ThrowsNoFallbackOnKnownPaths(mode) == StaticPathsKnown /\ mode # "static"

\* (isProduction || staticPaths) && fallbackMode !== 'static'
ThrowsNoFallback(mode) == (~cfg.dev \/ StaticPathsKnown) /\ mode # "static"

\* which way one execution of the producer goes
ProducerBranch(c, hasResolved, hadCache, resSent) ==
  LET mode == EffectiveMode(c, hadCache)
      didRespond == hasResolved \/ resSent
  IN IF SkipsManualRevalidate(c, hadCache) THEN "skip404"
     ELSE IF TakesFallbackPath(c, mode, didRespond)
          THEN IF ThrowsNoFallback(mode) THEN "NoFallbackError"
               ELSE IF ~c.isDataReq
                    THEN (IF ~cfg.dev THEN "getFallback" ELSE "fallbackRender")
                    ELSE "fullRender"
          ELSE "fullRender"

\* a skeleton that keeps the revalidate of its render
SkeletonRevalidateKept(revalidate) == revalidate

\* delete result.revalidate: prevent caching this result
SkeletonRevalidate(revalidate) == RevUndefined

\* the default in place of whatever the renderer asked for
FullRevalidateAlwaysDefault(revalidate) == RevSeconds(DefaultRevalidate)

\* the renderer's revalidate without the default
FullRevalidateNoDefault(revalidate) == revalidate

\* the revalidate of a full render: the renderer's, or the default
FullRevalidate(revalidate) ==
  IF revalidate.defined THEN revalidate ELSE RevSeconds(DefaultRevalidate)

\* the producer's result on a branch, o being what the renderer does
ProducerResult(branch, o, rid) ==
  CASE branch = "skip404" -> Render404AndNull
    [] branch = "NoFallbackError" -> Threw("NoFallbackError")
    [] branch = "getFallback" ->
         Returned([kind |-> "PAGE", html |-> "fallbackArtifact", pageData |-> "empty", rid |-> 0,
                   revalidate |-> RevUndefined])
    [] branch = "fallbackRender" ->
         LET result == DoRender(o, rid, "fallbackRender")
         IN IF result.tag = "entry"
            THEN Returned([result.entry EXCEPT !.revalidate = SkeletonRevalidate(@)])
            ELSE result
    [] OTHER ->
         LET result == DoRender(o, rid, "render")
         IN IF result.tag = "entry"
            THEN Returned([result.entry EXCEPT !.revalidate = FullRevalidate(@)])
            ELSE result

\* doRender is called on this branch
CallsDoRender(branch) == branch \in {"fallbackRender", "fullRender"}

(***************************************************************************)
(* Requests                                                                *)
(***************************************************************************)
\* req.method
Methods == {"GET", "HEAD", "POST"}

\* what a request carries: user agent, /_next/data request, preview
\* cookie, manual revalidate headers, query._nextBubbleNoFallback, method
ReqFlags ==
  { f \in [isBotRequest : BOOLEAN, dataReq : BOOLEAN, previewCookie : BOOLEAN,
           manual : BOOLEAN, onlyGenerated : BOOLEAN, bubbleNoFallback : BOOLEAN,
           nextjsDataHeader : BOOLEAN, malformedUrl : BOOLEAN, method : Methods] :
      f.onlyGenerated => f.manual }

NoFlags ==
  [isBotRequest |-> FALSE, dataReq |-> FALSE, previewCookie |-> FALSE,
   manual |-> FALSE, onlyGenerated |-> FALSE, bubbleNoFallback |-> FALSE,
   nextjsDataHeader |-> FALSE, malformedUrl |-> FALSE, method |-> "GET"]

NoResult ==
  [tag |-> "none", error |-> "none", entry |-> NoEntry, isMiss |-> FALSE, isStale |-> FALSE,
   from |-> 0]

NoBody == [kind |-> "none", html |-> "none", data |-> <<>>, rid |-> 0]

IdleTask ==
  [pc |-> "idle", req |-> NoFlags, after |-> {}, nextDataReq |-> FALSE,
   cand |-> 0, origin |-> "route", page |-> "", key |-> NullKey,
   isDataReq |-> FALSE, wait |-> 0, outer |-> <<>>, got |-> NoResult,
   status |-> 0, sent |-> FALSE, type |-> "none", body |-> NoBody,
   header |-> "none", thrown |-> "none", from |-> 0, saw |-> {},
   tried |-> <<>>, rejected |-> {}, err |-> "none", uncaught |-> "none",
   allow |-> <<>>]

NoClosure ==
  [page |-> "", key |-> NullKey, isBotRequest |-> FALSE, isDataReq |-> FALSE,
   isPreviewMode |-> FALSE, isManualRevalidate |-> FALSE,
   revalidateOnlyGenerated |-> FALSE]

NoRun ==
  [ran |-> FALSE, id |-> 0, owner |-> 0, cl |-> NoClosure, hasResolved |-> FALSE,
   resSent |-> FALSE, hadCache |-> FALSE, declared |-> "false", mode |-> "false", branch |-> "none",
   doRender |-> FALSE, rendered |-> RevUndefined, result |-> ReturnedNull]

NoStored == [present |-> FALSE, stale |-> FALSE, entry |-> NoEntry]

\* checkIsManualRevalidate is only consulted for SSG pages
IsManualRevalidate(t) == IsSSGPage(t.page) /\ t.req.manual
RevalidateOnlyGenerated(t) == IsSSGPage(t.page) /\ t.req.onlyGenerated

(***************************************************************************)
(* renderToResponse: the candidate walk                                    *)
(***************************************************************************)
\* the page id of candidate i: the literal page, then the dynamic routes
CandidatePage(i) ==
  IF i = 0 THEN LiteralPage ELSE DynamicRoutes[i]

\* candidate i is tried: the literal page is looked up unless the path is
\* itself a dynamic route, a dynamic route must match; components must exist
CandidateApplies(i) ==
  IF i = 0
  THEN ~IsDynamicRoute(CandidatePage(0)) /\ PageExists(CandidatePage(0))
  ELSE RouteMatches(DynamicRoutes[i]) /\ PageExists(DynamicRoutes[i])

Exhausted == Len(DynamicRoutes) + 1

\* the walk that starts from the end of the dynamic-route table
NextCandidateLastFirst(from) ==
  LET later == { i \in from..Len(DynamicRoutes) : CandidateApplies(i) }
  IN IF later = {} THEN Exhausted
     ELSE CHOOSE i \in later : \A j \in later : i >= j

\* the first candidate at or after position from that is tried
NextCandidate(from) ==
  LET later == { i \in from..Len(DynamicRoutes) : CandidateApplies(i) }
  IN IF later = {} THEN Exhausted
     ELSE CHOOSE i \in later : \A j \in later : i <= j

\* renderErrorToResponse: the page that renders the current status
ErrorPageFor(status) ==
  IF status = 404 /\ PageExists("/404") THEN "/404"
  ELSE IF status = 500 /\ ~cfg.dev /\ PageExists("/500") THEN "/500"
  ELSE "/_error"

\* enter renderErrorToResponse; via is "errorPipe" when it is reached
\* through render404 / renderError (its own pipe), "errorDirect" when
\* renderToResponse calls it
StartErrorFrame(t, status, via) ==
  [t EXCEPT !.status = status, !.origin = via, !.page = ErrorPageFor(status),
            !.nextDataReq = IF via = "errorPipe" THEN FALSE ELSE @,
            !.pc = "render", !.got = NoResult, !.key = NullKey, !.wait = 0, !.from = 0]

\* pipe: a returned payload is sent unless the response was sent already;
\* the payload of the custom error render is dropped by renderToResponse
SendPayload(t, type, body) ==
  IF t.sent \/ t.origin = "errorCustom" THEN t
  ELSE [t EXCEPT !.sent = TRUE, !.type = type, !.body = body]

\* the request is over; producers awaiting this request's render404 go on
EndRequest(t) ==
  LET u == IF t.origin = "errorPipe" /\ cfg.minimalMode /\ t.status = 500
           THEN [t EXCEPT !.thrown = "RenderError", !.uncaught = "RenderError"]
           ELSE t
  IN [u EXCEPT !.pc = IF u.outer # <<>> THEN "unwind" ELSE "done",
               !.got = NoResult, !.wait = 0]

\* an error leaves renderToResponse and reaches the catch of handleRequest:
\* rethrown in minimal mode and in dev, else status 500 and the static body
HandleRequestCatch(t, error) ==
  IF cfg.minimalMode \/ cfg.dev
  THEN EndRequest([t EXCEPT !.thrown = error, !.uncaught = error])
  ELSE EndRequest([t EXCEPT !.thrown = error, !.status = 500, !.sent = TRUE,
                            !.body = IF t.sent THEN @
                                     ELSE [NoBody EXCEPT !.kind = "InternalServerError"]])

\* the catch of renderToResponse that rethrows in every mode
RethrowsOrRendersAlwaysRethrows(t, error) == HandleRequestCatch(t, error)

\* the catch of renderToResponse that renders the error page in every mode
RethrowsOrRendersAlwaysRenders(t, error) == StartErrorFrame(t, 500, "errorDirect")

\* the catch of renderToResponse after the custom error render: the error
\* is rethrown in minimal mode and in dev, else the error page is rendered
RethrowsOrRenders(t, error) ==
  IF cfg.minimalMode \/ cfg.dev
  THEN HandleRequestCatch(t, error)
  ELSE StartErrorFrame(t, 500, "errorDirect")

\* the frame is over: the custom error render goes back into the catch of
\* renderToResponse, any other frame ends the request
Finish(t) ==
  IF t.origin = "errorCustom"
  THEN RethrowsOrRenders([t EXCEPT !.got = NoResult, !.wait = 0], t.err)
  ELSE EndRequest(t)

\* the catch that lets the NoFallbackError of the last candidate through
\* only
BubblesNoFallbackOnlyLast(t) ==
  t.req.bubbleNoFallback /\ NextCandidate(t.cand + 1) = Exhausted

\* the catch that lets every NoFallbackError through
BubblesNoFallbackAlways(t) == TRUE

\* the catch that swallows the NoFallbackError of a bubbling caller too
BubblesNoFallbackNever(t) == FALSE

\* err instanceof NoFallbackError && bubbleNoFallback
BubblesNoFallback(t) == t.req.bubbleNoFallback

\* the catch that takes a missing static page for a renderer error
RenderOrRethrowMissingAsError(t, error) ==
  IF PageExists("/500")
  THEN [StartErrorFrame([t EXCEPT !.status = 500], 500, "errorCustom") EXCEPT
          !.page = "/_error", !.err = error]
  ELSE RethrowsOrRenders([t EXCEPT !.status = 500, !.err = error], error)

\* the catch of renderToResponse for an error that is neither a bubbling
\* NoFallbackError nor a decode error: a missing static page is rethrown;
\* else status 500, with a /500 page the /_error page is rendered first
\* for its getInitialProps, then rethrow or error page
RenderOrRethrow(t, error) ==
  IF error = "MissingStaticPage"
  THEN HandleRequestCatch(t, error)
  ELSE IF PageExists("/500")
  THEN [StartErrorFrame([t EXCEPT !.status = 500], 500, "errorCustom") EXCEPT
          !.page = "/_error", !.err = error]
  ELSE RethrowsOrRenders([t EXCEPT !.status = 500, !.err = error], error)

\* the decode error that is handled as any renderer error
DecodeErrorAsRenderError(t) == RenderOrRethrow(t, "RenderError")

\* err instanceof DecodeError: status 400 and the error page
DecodeErrorResponse(t) == StartErrorFrame(t, 400, "errorDirect")

\* an error leaves renderToResponseWithComponents
FrameError(t, error) ==
  IF t.origin = "route"
  THEN IF error = "NoFallbackError"
       THEN IF BubblesNoFallback(t)
            THEN \* rethrown by renderPageComponent and by renderToResponse
                 HandleRequestCatch(t, error)
            ELSE \* renderPageComponent returns false: next candidate
                 [t EXCEPT !.cand = @ + 1, !.pc = "render", !.got = NoResult, !.wait = 0,
                           !.rejected = @ \cup {t.cand}]
       ELSE IF error = "DecodeError"
       THEN DecodeErrorResponse([t EXCEPT !.saw = @ \cup {"DecodeError"}])
       ELSE RenderOrRethrow([t EXCEPT !.saw = @ \cup {error}], error)
  ELSE \* renderErrorToResponse: status 500, no fallback error components in
       \* this class, the static body is returned; renderError throws
       \* instead of returning it in minimal mode
       LET u == [t EXCEPT !.status = 500,
                          !.saw = @ \cup {IF t.origin = "errorCustom" THEN "customRenderFailed"
                                          ELSE "errorPageFailed"}
                                    \cup (IF error = "NoFallbackError"
                                          THEN {"failedToRenderErrorPage"} ELSE {})]
       IN IF t.origin = "errorPipe" /\ cfg.minimalMode
          THEN EndRequest(u)
          ELSE Finish(SendPayload(u, "html", [NoBody EXCEPT !.kind = "InternalServerError"]))

(***************************************************************************)
(* The response cache (server/response-cache, outside this source tree):   *)
(* single flight per key, stale-while-revalidate                           *)
(***************************************************************************)
\* ids of generators and renders that something still refers to
UsedIds ==
  {e.id : e \in execs} \cup {cache[k].entry.rid : k \in Keys}
  \cup {task[r].body.rid : r \in Reqs} \cup {task[r].got.entry.rid : r \in Reqs}
  \cup {task[r].from : r \in Reqs} \cup {lastRun.id}

\* a fresh id for a generator; its render carries the same id
FreshId == CHOOSE i \in 1..(Cardinality(UsedIds) + 1) : i \notin UsedIds

\* the generator in flight for a key, if any
InFlight(key) == { e \in execs : key # NullKey /\ e.key = key }

\* isNotFound and isRedirect come from getStaticProps / getServerSideProps
HasDataMethod(page) == IsSSGPage(page) \/ HasServerProps(page)

\* the producer's closure for the frame task t is in
ClosureOf(t, key, isDataReq) ==
  [page |-> t.page, key |-> key, isBotRequest |-> t.req.isBotRequest,
   isDataReq |-> isDataReq,
   isPreviewMode |-> IsPreviewMode(t.req.previewCookie, HasServerProps(t.page), IsSSGPage(t.page)),
   isManualRevalidate |-> IsManualRevalidate(t),
   revalidateOnlyGenerated |-> RevalidateOnlyGenerated(t)]

\* the store answers from a stored entry unless this is a manual revalidate
ServesStored(key, isManualRevalidate) ==
  key # NullKey /\ cache[key].present /\ ~isManualRevalidate

\* responseCache.get called with no generator in flight for the key: it
\* answers a stored entry at once (regenerating a stale one in the
\* background) or starts the producer and has the caller wait for it
StartGet(r, t, c) ==
  LET hadCache == c.key # NullKey /\ cache[c.key].present
      hit == [tag |-> "entry", error |-> "none", entry |-> cache[c.key].entry,
              isMiss |-> FALSE, isStale |-> cache[c.key].stale, from |-> 0]
      e == [id |-> FreshId, key |-> c.key, owner |-> r, cl |-> c,
            hadCache |-> hadCache, hasResolved |-> FALSE, state |-> "running"]
  IN IF ServesStored(c.key, c.isManualRevalidate)
     THEN /\ task' = [task EXCEPT ![r] = [t EXCEPT !.pc = "respond", !.got = hit, !.from = 0]]
          /\ execs' = IF cache[c.key].stale
                      THEN execs \cup {[e EXCEPT !.hasResolved = TRUE]}
                      ELSE execs
     ELSE /\ task' = [task EXCEPT ![r] = [t EXCEPT !.pc = "wait", !.wait = e.id]]
          /\ execs' = execs \cup {e}

\* a store without single flight: every call starts its own generator
StoreGetNoSingleFlight(r, t, c) == StartGet(r, t, c)

\* responseCache.get: a call for a key that has a generator in flight
\* shares that generator's result
StoreGet(r, t, c) ==
  IF InFlight(c.key) # {}
  THEN LET e == CHOOSE x \in InFlight(c.key) : TRUE
       IN /\ UNCHANGED execs
          /\ IF e.hasResolved
             THEN task' = [task EXCEPT ![r] =
                     [t EXCEPT !.pc = "respond",
                               !.got = [tag |-> "entry", error |-> "none",
                                        entry |-> cache[c.key].entry,
                                        isMiss |-> FALSE, isStale |-> TRUE, from |-> 0]]]
             ELSE task' = [task EXCEPT ![r] = [t EXCEPT !.pc = "wait", !.wait = e.id]]
  ELSE StartGet(r, t, c)

\* the store persists a generated entry that has a revalidate
Persists(key, result) ==
  key # NullKey /\ result.tag = "entry" /\ result.entry.revalidate.defined

\* what the callers of get receive from a finished generator
Resolution(result, hadCache, id) ==
  [tag |-> result.tag, error |-> result.error, entry |-> result.entry,
   isMiss |-> ~hadCache, isStale |-> FALSE, from |-> id]

\* every task waiting for generator id receives got
Resolve(tasks, id, got) ==
  [r \in Reqs |->
     IF tasks[r].pc = "wait" /\ tasks[r].wait = id
     THEN [tasks[r] EXCEPT !.pc = "respond", !.got = got, !.wait = 0, !.from = got.from,
                           !.saw = IF got.tag = "throw" THEN @ \cup {got.error} ELSE @]
     ELSE tasks[r]]

(***************************************************************************)
(* Actions                                                                 *)
(***************************************************************************)
\* server constructions: dev or minimal mode, the fallback field of the
\* dynamic page, the pages that exist, the keys the build prerendered
\* (only an SSG 404 page has a prerendered entry)
AllConfigs ==
  { c \in [dev : BOOLEAN, minimalMode : BOOLEAN, fallbackField : {"string", "null", "false"},
           hasLiteral : BOOLEAN, hasCatchAll : BOOLEAN, catchAllProps : BOOLEAN,
           page404 : {"none", "static", "ssg"}, page500 : BOOLEAN,
           hasMiddleware : BOOLEAN, staticMissing : BOOLEAN,
           prerendered : SUBSET Keys] :
      /\ ~(c.dev /\ c.minimalMode)
      /\ ~c.hasCatchAll => c.catchAllProps
      /\ StatusKey \in c.prerendered => c.page404 = "ssg" }

\* servers with every static file in place, without a /500 page and
\* without middleware
Configs ==
  { c \in AllConfigs : ~c.page500 /\ ~c.hasMiddleware /\ ~c.staticMissing }

\* servers of the error paths: nothing prerendered, a dynamic page without
\* the static fallback; a /500 page, a catch-all middleware, static html
\* files missing from disk
ErrorConfigs ==
  { c \in AllConfigs : c.prerendered = {} /\ c.fallbackField # "string" }

\* entries the build may have prerendered into the store
Prerendered(kind) ==
  [present |-> TRUE, stale |-> FALSE,
   entry |-> [kind |-> kind, html |-> IF kind = "PAGE" THEN "render" ELSE "none",
              pageData |-> IF kind = "PAGE" THEN "pageProps" ELSE "none",
              rid |-> 0, revalidate |-> RevSeconds(RenderRevalidate)]]

KeyInputs ==
  { KeyInput(pn, rs, lc, amp, pv, kind = "ssg", kind = "ssr", bot, fl) :
      pn \in {"/", "/404", "/500", DynamicPage, CatchAllPage},
      rs \in { <<"/">>, <<"/", "index">>, UrlPath, <<"/", "blog", "/", "%E0%A4%A">>,
               <<"/", "a", "%2F", "b">>, <<"/", "en">>, UrlPath \o <<".amp">> },
      lc \in {NoLocale, "en"}, amp \in BOOLEAN, pv \in BOOLEAN,
      kind \in {"ssg", "ssr", "plain"}, bot \in BOOLEAN, fl \in BOOLEAN }

NoKeyInput == KeyInput("", <<>>, NoLocale, FALSE, FALSE, FALSE, FALSE, FALSE, FALSE)
NoKeyResult == [key |-> NullKey, threw |-> FALSE]

InitCommon ==
  /\ execs = {}
  /\ task = [r \in Reqs |-> IdleTask]
  /\ lastRun = NoRun
  /\ arrivals = 0
  /\ expiries = 0
  /\ produced = 0
  /\ keyReq = [i \in {1, 2} |-> NoKeyInput]
  /\ keyRes = [i \in {1, 2} |-> NoKeyResult]
  /\ piped = NoPipe

\* the store a server with configuration c starts with
StoreOf(c) ==
  [k \in Keys |-> IF k \in c.prerendered THEN Prerendered("PAGE") ELSE NoStored]

\* a request on its own, whatever it carries and however the server is set up
Init ==
  /\ cfg \in Configs
  /\ load = "single"
  /\ cache = StoreOf(cfg)
  /\ InitCommon

\* GET requests with a well-formed url and without the x-nextjs-data header
SingleFlags ==
  { f \in ReqFlags : ~f.nextjsDataHeader /\ ~f.malformedUrl /\ f.method = "GET" }

\* requests of callers that do not ask to bubble NoFallbackError
ProducerFlags == { f \in SingleFlags : ~f.bubbleNoFallback }

\* page requests without preview cookie or manual revalidate headers
PlainFlags ==
  { f \in SingleFlags : ~f.previewCookie /\ ~f.manual /\ ~f.dataReq /\ ~f.bubbleNoFallback }

\* browser requests of the error paths: data requests, bubbling callers,
\* the x-nextjs-data header, a malformed url
ErrorFlags ==
  { f \in ReqFlags : ~f.isBotRequest /\ ~f.previewCookie /\ ~f.manual /\ f.method = "GET" }

\* browser requests with any method: page requests and data requests
MethodFlags ==
  { f \in ReqFlags : /\ ~f.isBotRequest /\ ~f.previewCookie /\ ~f.manual
                     /\ ~f.bubbleNoFallback /\ ~f.nextjsDataHeader /\ ~f.malformedUrl }

\* the requests slot r may receive under the traffic of this behaviour:
\* anything when a request comes on its own, plain page requests of
\* browsers and bots when requests follow and overlap each other
FlagsUnder(r) ==
  CASE load = "single" -> SingleFlags
    [] load = "producer" -> ProducerFlags
    [] load = "methods" -> MethodFlags
    [] load = "errors" -> ErrorFlags
    [] OTHER -> PlainFlags

\* handleRequest .. run: a request is accepted (res.statusCode = 200)
Arrive(r) ==
  /\ task[r].pc = "idle"
  /\ arrivals < MaxArrivals
  /\ load \in {"single", "errors", "image", "producer", "methods"} => arrivals = 0
  /\ \E f \in FlagsUnder(r) :
       task' = [task EXCEPT ![r] =
                 [IdleTask EXCEPT !.pc = "render", !.req = f, !.nextDataReq = f.dataReq,
                                  !.status = 200,
                                  !.after = { q \in Reqs : task[q].pc = "done" }]]
  /\ arrivals' = arrivals + 1
  /\ lastRun' = NoRun
  /\ UNCHANGED <<piped, cfg, load, cache, execs, expiries, keyReq, keyRes, produced>>

\* the component lookup that hands every candidate the request's own query
\* object, from which the first handler deletes __nextDataReq
CtxDataReqWhenShared(t) == FALSE

\* query.__nextDataReq of the request context after a candidate's handler
\* has deleted it from the query the component lookup handed to it: the
\* lookup hands out a copy, the context keeps its flag
CtxDataReqAfterLookup(t) == t.nextDataReq

\* the path of req.url, from which the cache key is derived
MalformedUrlPath == <<"/", "blog", "/", "%E0%A4%A">>
UrlOf(req) == IF req.malformedUrl THEN MalformedUrlPath ELSE UrlPath

\* the method test that covers automatically static pages only
RejectsMethodStaticOnly(req, page) ==
  /\ page \notin {"/404", "/500", "/_error"}
  /\ req.method \notin {"HEAD", "GET"}
  /\ IsStaticComponent(page)

\* static pages can only respond to GET/HEAD requests
RejectsMethod(req, page) ==
  /\ page \notin {"/404", "/500", "/_error"}
  /\ req.method \notin {"HEAD", "GET"}
  /\ (IsStaticComponent(page) \/ IsSSGPage(page))

\* status 405 with the Allow header, the error page through renderError,
\* and null is returned
MethodNotAllowed(t) ==
  StartErrorFrame([t EXCEPT !.allow = <<"GET", "HEAD">>,
                            !.saw = @ \cup {"methodNotAllowed"}],
                  405, "errorPipe")

\* renderToResponseWithComponents for page, up to and including the call
\* of responseCache.get
EnterPage(r, t0, page) ==
  LET isDataReq == t0.nextDataReq /\ (IsSSGPage(page) \/ HasServerProps(page))
      t1 == [t0 EXCEPT !.page = page, !.isDataReq = isDataReq,
                       !.nextDataReq = CtxDataReqAfterLookup(t0),
                       !.status = IF page = "/404" /\ ~isDataReq THEN 404 ELSE @]
      k == DeriveKey(KeyInput(page, UrlOf(t0.req), NoLocale, FALSE, t1.req.previewCookie,
                              IsSSGPage(page), HasServerProps(page),
                              t1.req.isBotRequest, FALSE))
      t2 == [t1 EXCEPT !.key = k.key]
  IN IF IsStaticComponent(page) /\ cfg.staticMissing
     THEN /\ task' = [task EXCEPT ![r] = FrameError(t1, "MissingStaticPage")]
          /\ UNCHANGED execs
     ELSE IF RejectsMethod(t1.req, page)
     THEN /\ task' = [task EXCEPT ![r] = MethodNotAllowed(t1)]
          /\ UNCHANGED execs
     ELSE IF IsStaticComponent(page)
     THEN /\ task' = [task EXCEPT ![r] =
                       Finish(SendPayload(t1, "html", [NoBody EXCEPT !.kind = "static"]))]
          /\ UNCHANGED execs
     ELSE IF k.threw
     THEN /\ task' = [task EXCEPT ![r] = FrameError(t1, "DecodeError")]
          /\ UNCHANGED execs
     ELSE StoreGet(r, t2, ClosureOf(t2, k.key, isDataReq))

\* the exhausted walk that turns to the error page with the status it
\* finds
ExhaustKeepingStatus(t) ==
  [StartErrorFrame(t, t.status, "errorDirect") EXCEPT !.saw = @ \cup {"errorPage"}]

\* no candidate gave a result: a data request of the middleware client is
\* answered with status 200 and an empty JSON object, any other request
\* with status 404 and the error page
Exhaust(t) ==
  IF cfg.hasMiddleware /\ t.req.nextjsDataHeader /\ t.status \in {200, 404}
  THEN EndRequest([t EXCEPT !.status = 200, !.sent = TRUE,
                            !.body = [NoBody EXCEPT !.kind = "emptyJson",
                                                    !.data = <<"{", "}">>],
                            !.saw = @ \cup {"middlewareData"}])
  ELSE [StartErrorFrame(t, 404, "errorDirect") EXCEPT !.saw = @ \cup {"errorPage"}]

\* renderToResponse tries its next candidate, or, the candidates being
\* exhausted, turns to the 404 page; renderErrorToResponse renders its page
Render(r) ==
  /\ task[r].pc = "render"
  /\ LET t == task[r]
         c == NextCandidate(t.cand)
     IN IF t.origin = "route"
        THEN IF c = Exhausted
             THEN /\ task' = [task EXCEPT ![r] =
                               Exhaust([t EXCEPT !.saw = @ \cup {"exhausted"}])]
                  /\ UNCHANGED execs
             ELSE EnterPage(r, [t EXCEPT !.cand = c, !.tried = Append(@, c)],
                            CandidatePage(c))
        ELSE EnterPage(r, t, t.page)
  /\ lastRun' = NoRun
  /\ UNCHANGED <<piped, cfg, load, cache, arrivals, expiries, keyReq, keyRes, produced>>

\* fallbackMode when the producer leaves: the manual-revalidate skip
\* returns before the manual-revalidate escalation
ModeAtExit(c, hadCache) ==
  IF SkipsManualRevalidate(c, hadCache)
  THEN BotMode(DeclaredMode(c.page), c.isBotRequest)
  ELSE EffectiveMode(c, hadCache)

\* a render without a body: the page has written the response itself
SentByPage(tasks, owner, branch, o) ==
  IF CallsDoRender(branch) /\ o.kind = "NO_BODY" /\ ~tasks[owner].sent
  THEN [tasks EXCEPT ![owner] = [@ EXCEPT !.sent = TRUE,
                                          !.body = [NoBody EXCEPT !.kind = "byPage"]]]
  ELSE tasks

\* one execution of the producer callback, with what the store does with
\* its result: persist it, hand it to every waiting caller
Produce(e) ==
  /\ e \in execs
  /\ e.state = "running"
  /\ \E o \in RenderOutcomes :
       LET branch == ProducerBranch(e.cl, e.hasResolved, e.hadCache, task[e.owner].sent)
           result == ProducerResult(branch, o, e.id)
           t == task[e.owner]
       IN /\ CallsDoRender(branch) \/ o.kind = "NO_BODY"
          /\ o.kind \in {"NOT_FOUND", "REDIRECT"} => HasDataMethod(e.cl.page)
          /\ lastRun' = [ran |-> TRUE, id |-> e.id, owner |-> e.owner, cl |-> e.cl,
                         hasResolved |-> e.hasResolved, resSent |-> t.sent,
                         hadCache |-> e.hadCache,
                         declared |-> DeclaredMode(e.cl.page),
                         mode |-> ModeAtExit(e.cl, e.hadCache), branch |-> branch,
                         doRender |-> CallsDoRender(branch),
                         rendered |-> IF CallsDoRender(branch) THEN o.revalidate
                                      ELSE RevUndefined,
                         result |-> result]
          /\ IF result.tag = "skip404"
             THEN \* await this.render404(req, res) inside the producer
                  /\ execs' = (execs \ {e}) \cup {[e EXCEPT !.state = "suspended"]}
                  /\ task' = [task EXCEPT ![e.owner] =
                               StartErrorFrame([t EXCEPT !.outer = <<e.id>> \o @, !.saw = @ \cup {"skip404"}],
                                               404, "errorPipe")]
                  /\ UNCHANGED cache
             ELSE /\ execs' = execs \ {e}
                  /\ cache' = IF Persists(e.key, result)
                              THEN [cache EXCEPT ![e.key] =
                                      [present |-> TRUE, stale |-> FALSE, entry |-> result.entry]]
                              ELSE cache
                  /\ task' = IF e.hasResolved THEN task
                             ELSE Resolve(SentByPage(task, e.owner, branch, o), e.id,
                                          Resolution(result, e.hadCache, e.id))
  /\ produced' = IF produced < MaxProduced THEN produced + 1 ELSE produced
  /\ UNCHANGED <<piped, cfg, load, arrivals, expiries, keyReq, keyRes>>

\* render404 inside the producer has returned: the producer returns null
Resume(e) ==
  /\ e \in execs
  /\ e.state = "suspended"
  /\ task[e.owner].pc = "unwind"
  /\ Head(task[e.owner].outer) = e.id
  /\ execs' = execs \ {e}
  /\ task' = [Resolve(task, e.id, Resolution(ReturnedNull, e.hadCache, e.id)) EXCEPT ![e.owner] =
               [task[e.owner] EXCEPT !.outer = Tail(@),
                                     !.pc = IF Tail(task[e.owner].outer) # <<>> THEN "unwind" ELSE "done"]]
  /\ lastRun' = NoRun
  /\ UNCHANGED <<piped, cfg, load, cache, arrivals, expiries, keyReq, keyRes, produced>>

\* an entry is demanded of a keyed request without an entry only when the
\* key is missing
RequiresEntryOnlyWithoutKey(t) == t.key = NullKey

\* a request with a cache key must get a cache entry, unless it is a manual
\* revalidate with revalidate-only-generated
RequiresEntry(t) ==
  t.key # NullKey /\ ~(IsManualRevalidate(t) /\ RevalidateOnlyGenerated(t))

\* the cache status that does not tell a manual revalidate apart
CacheStatusNeverRevalidated(isManualRevalidate, got) ==
  IF got.isMiss THEN "MISS"
  ELSE IF got.isStale THEN "STALE"
  ELSE "HIT"

\* the x-nextjs-cache header of a response for an SSG page
CacheStatus(isManualRevalidate, got) ==
  IF isManualRevalidate THEN "REVALIDATED"
  ELSE IF got.isMiss THEN "MISS"
  ELSE IF got.isStale THEN "STALE"
  ELSE "HIT"

\* JSON.stringify of an entry's pageData
JSONStringify(pageData) ==
  IF pageData = "empty" THEN <<"{", "}">> ELSE <<"{", pageData, "}">>

\* the payload that is markup whatever the request asks for
PagePayloadMarkupOnly(isDataReq, entry) ==
  [type |-> "html",
   body |-> [kind |-> "html", html |-> entry.html, data |-> <<>>, rid |-> entry.rid]]

\* the payload of a PAGE entry: its serialized pageData for a data request,
\* its html otherwise
PagePayload(isDataReq, entry) ==
  IF isDataReq
  THEN [type |-> "json",
        body |-> [kind |-> "pageData", html |-> "none",
                  data |-> JSONStringify(entry.pageData), rid |-> entry.rid]]
  ELSE [type |-> "html",
        body |-> [kind |-> "html", html |-> entry.html, data |-> <<>>, rid |-> entry.rid]]

\* the not-found entry that always renders the 404 page
RespondNotFoundAlwaysPage(h, isDataReq) == StartErrorFrame(h, 404, "errorPipe")

\* a not-found entry: a data request gets status 404 and the not-found
\* body, written by the handler itself, and null is returned; any other
\* request gets the 404 page
RespondNotFound(h, isDataReq) ==
  IF isDataReq
  THEN Finish([h EXCEPT !.status = 404, !.sent = TRUE,
                        !.body = [NoBody EXCEPT !.kind = "notFoundJson",
                                                !.data = <<"{", "notFound", ":", "true", "}">>],
                        !.saw = @ \cup {"notFoundJson"}])
  ELSE StartErrorFrame(h, 404, "errorPipe")

\* the handler that takes an image value for a page
ThrowsOnImageNever(entry) == FALSE

\* cachedData.kind === 'IMAGE': SSG should not return an image cache value
ThrowsOnImage(entry) == entry.kind = "IMAGE"

\* renderToResponseWithComponents after responseCache.get has answered
Respond(r) ==
  /\ task[r].pc = "respond"
  /\ LET t == task[r]
         got == t.got
         h == [t EXCEPT !.header = IF IsSSGPage(t.page) /\ ~cfg.minimalMode
                                   THEN CacheStatus(IsManualRevalidate(t), got)
                                   ELSE @]
     IN task' = [task EXCEPT ![r] =
          CASE got.tag = "throw" -> FrameError(t, got.error)
            [] got.tag = "null" ->
                 LET n == [t EXCEPT !.saw = @ \cup (IF t.key # NullKey THEN {"noEntryForKey"}
                                                    ELSE {"noEntry"})]
                 IN IF RequiresEntry(t)
                    THEN FrameError([n EXCEPT !.saw = @ \cup {"InvariantNoCacheEntry"}],
                                    "InvariantNoCacheEntry")
                    ELSE Finish(n)
            [] got.entry.kind = "NOT_FOUND" -> RespondNotFound(h, t.isDataReq)
            [] got.entry.kind = "REDIRECT" ->
                 IF t.isDataReq
                 THEN Finish(SendPayload(h, "json",
                        [NoBody EXCEPT !.kind = "redirectProps", !.rid = got.entry.rid]))
                 ELSE Finish([h EXCEPT !.status = 307, !.sent = TRUE,
                                       !.body = [NoBody EXCEPT !.kind = "redirect",
                                                               !.rid = got.entry.rid]])
            [] ThrowsOnImage(got.entry) ->
                 FrameError([h EXCEPT !.saw = @ \cup {"InvariantImage"}], "InvariantImage")
            [] OTHER ->
                 LET payload == PagePayload(t.isDataReq, got.entry)
                 IN Finish(SendPayload(h, payload.type, payload.body))]
  /\ lastRun' = NoRun
  /\ UNCHANGED <<piped, cfg, load, cache, execs, arrivals, expiries, keyReq, keyRes, produced>>

\* the revalidate window of a stored entry passes
Expire(k) ==
  /\ expiries < MaxExpiries
  /\ cache[k].present
  /\ ~cache[k].stale
  /\ ~cache[k].entry.revalidate.never
  /\ cache' = [cache EXCEPT ![k].stale = TRUE]
  /\ expiries' = expiries + 1
  /\ lastRun' = NoRun
  /\ UNCHANGED <<piped, cfg, load, execs, task, arrivals, keyReq, keyRes, produced>>

\* the connection of a finished request goes away
Retire(r) ==
  /\ task[r].pc = "done"
  /\ arrivals < MaxArrivals
  /\ task' = [task EXCEPT ![r] = IdleTask]
  /\ lastRun' = NoRun
  /\ UNCHANGED <<piped, cfg, load, cache, execs, arrivals, expiries, keyReq, keyRes, produced>>

Next ==
  \/ \E r \in Reqs : Arrive(r)
  \/ \E r \in Reqs : Render(r)
  \/ \E e \in execs : Produce(e)
  \/ \E e \in execs : Resume(e)
  \/ \E r \in Reqs : Respond(r)
  \/ \E k \in Keys : Expire(k)
  \/ \E r \in Reqs : Retire(r)

Spec == Init /\ [][Next]_vars

\* plain page requests that follow and overlap each other, on a server
\* outside minimal mode with the automatically static 404 page
OverlapInit ==
  /\ cfg \in { c \in Configs : ~c.minimalMode /\ c.page404 = "static" /\ ~c.hasLiteral }
  /\ load = "overlap"
  /\ cache = StoreOf(cfg)
  /\ InitCommon

\* no producer of a plain request awaits render404, so nothing resumes
OverlapNext ==
  \/ \E r \in Reqs : Arrive(r)
  \/ \E r \in Reqs : Render(r)
  \/ \E e \in execs : Produce(e)
  \/ \E r \in Reqs : Respond(r)
  \/ \E k \in Keys : Expire(k)
  \/ \E r \in Reqs : Retire(r)

OverlapSpec == OverlapInit /\ [][OverlapNext]_vars

(***************************************************************************)
(* The error paths: one browser request against a server that may have a   *)
(* /500 page, a catch-all middleware, static html files missing            *)
(***************************************************************************)
ErrorInit ==
  /\ cfg \in ErrorConfigs
  /\ load = "errors"
  /\ cache = StoreOf(cfg)
  /\ InitCommon

\* nothing is prerendered and no request is a manual revalidate: no
\* producer awaits render404
ErrorNext ==
  \/ \E r \in Reqs : Arrive(r)
  \/ \E r \in Reqs : Render(r)
  \/ \E e \in execs : Produce(e)
  \/ \E r \in Reqs : Respond(r)
  \/ \E k \in Keys : Expire(k)
  \/ \E r \in Reqs : Retire(r)

ErrorSpec == ErrorInit /\ [][ErrorNext]_vars

(***************************************************************************)
(* The producer on its own: one request for the dynamic page, no other     *)
(* candidate                                                               *)
(***************************************************************************)
ProducerInit ==
  /\ cfg \in { c \in Configs : ~c.hasLiteral /\ ~c.hasCatchAll }
  /\ load = "producer"
  /\ cache = StoreOf(cfg)
  /\ InitCommon

ProducerSpec == ProducerInit /\ [][Next]_vars

(***************************************************************************)
(* Request methods: one browser request with any method                    *)
(***************************************************************************)
MethodInit ==
  /\ cfg \in { c \in Configs : c.prerendered = {} }
  /\ load = "methods"
  /\ cache = StoreOf(cfg)
  /\ InitCommon

\* no request is a manual revalidate: no producer awaits render404
MethodNext ==
  \/ \E r \in Reqs : Arrive(r)
  \/ \E r \in Reqs : Render(r)
  \/ \E e \in execs : Produce(e)
  \/ \E r \in Reqs : Respond(r)
  \/ \E k \in Keys : Expire(k)
  \/ \E r \in Reqs : Retire(r)

MethodSpec == MethodInit /\ [][MethodNext]_vars

(***************************************************************************)
(* A store that holds an image value under the key of a page: the value    *)
(* type of the store has the kind IMAGE beside PAGE and REDIRECT           *)
(***************************************************************************)
ImageInit ==
  /\ cfg \in { c \in Configs : ~c.hasLiteral /\ c.prerendered = {} }
  /\ load = "image"
  /\ cache = [k \in Keys |-> IF k = UrlPath THEN Prerendered("IMAGE") ELSE NoStored]
  /\ InitCommon

\* a page request of a browser or a bot: no producer awaits render404
ImageNext ==
  \/ \E r \in Reqs : Arrive(r)
  \/ \E r \in Reqs : Render(r)
  \/ \E e \in execs : Produce(e)
  \/ \E r \in Reqs : Respond(r)
  \/ \E k \in Keys : Expire(k)
  \/ \E r \in Reqs : Retire(r)

ImageSpec == ImageInit /\ [][ImageNext]_vars

(***************************************************************************)
(* Key derivation on its own: two requests for one (locale, path, format)  *)
(***************************************************************************)
KeyInit ==
  /\ cfg \in { c \in Configs : ~c.dev /\ ~c.minimalMode /\ c.fallbackField = "null"
                               /\ ~c.hasLiteral /\ ~c.hasCatchAll /\ c.page404 = "ssg"
                               /\ c.prerendered = {} }
  /\ load = "single"
  /\ cache = StoreOf(cfg)
  /\ InitCommon

\* a request derives its cache key
KeyFirst ==
  /\ keyReq[1] = NoKeyInput
  /\ \E in \in KeyInputs :
       /\ keyReq' = [keyReq EXCEPT ![1] = in, ![2] = NoKeyInput]
       /\ keyRes' = [keyRes EXCEPT ![1] = DeriveKey(in), ![2] = NoKeyResult]
  /\ UNCHANGED <<piped, cfg, load, cache, execs, task, lastRun, arrivals, expiries, produced>>

\* a second request for the same locale, resolved path and format does
KeySecond ==
  /\ keyReq[1] # NoKeyInput
  /\ keyReq[2] = NoKeyInput
  /\ \E in \in KeyInputs :
       /\ in.locale = keyReq[1].locale
       /\ in.resolved = keyReq[1].resolved
       /\ in.amp = keyReq[1].amp
       /\ keyReq' = [keyReq EXCEPT ![2] = in]
       /\ keyRes' = [keyRes EXCEPT ![2] = DeriveKey(in)]
  /\ UNCHANGED <<piped, cfg, load, cache, execs, task, lastRun, arrivals, expiries, produced>>

\* a second request for the same page, with the same cookies and user
\* agent, for any locale, resolved path and format
KeyOther ==
  /\ keyReq[1] # NoKeyInput
  /\ keyReq[2] = NoKeyInput
  /\ \E in \in KeyInputs :
       /\ in.pathname = keyReq[1].pathname
       /\ in.isSSG = keyReq[1].isSSG
       /\ in.hasServerProps = keyReq[1].hasServerProps
       /\ in.previewCookie = keyReq[1].previewCookie
       /\ in.isBotRequest = keyReq[1].isBotRequest
       /\ in.flight = keyReq[1].flight
       /\ keyReq' = [keyReq EXCEPT ![2] = in]
       /\ keyRes' = [keyRes EXCEPT ![2] = DeriveKey(in)]
  /\ UNCHANGED <<piped, cfg, load, cache, execs, task, lastRun, arrivals, expiries, produced>>

KeyNext ==
  \/ KeyFirst
  \/ KeySecond
  \/ KeyOther

KeySpec == KeyInit /\ [][KeyNext]_vars

(***************************************************************************)
(* pipe on its own: one call pipe(...fns)(param)                           *)
(***************************************************************************)
PipeInit ==
  /\ cfg \in { c \in Configs : ~c.dev /\ ~c.minimalMode /\ c.fallbackField = "null"
                               /\ ~c.hasLiteral /\ ~c.hasCatchAll /\ c.page404 = "static"
                               /\ c.prerendered = {} }
  /\ load = "pipe"
  /\ cache = StoreOf(cfg)
  /\ InitCommon

\* pipe(...fns)(param): reduce runs its callback once per function, each
\* callback awaiting the result of the one before it, the first awaiting
\* param; with no functions reduce returns param itself
PipeCall ==
  /\ piped.phase = "idle"
  /\ \E fns \in FnLists, param \in PipeValues :
       piped' = [NoPipe EXCEPT !.phase = IF fns = <<>> THEN "resolved" ELSE "pending",
                               !.fns = fns, !.param = param, !.result = param]
  /\ UNCHANGED <<cfg, load, cache, execs, task, lastRun, arrivals, expiries, produced,
                 keyReq, keyRes>>

\* the result awaited by the next callback has resolved: the callback calls
\* its function with it
PipeInvoke ==
  /\ piped.phase = "pending"
  /\ ~piped.running
  /\ piped' = [piped EXCEPT !.running = TRUE, !.started = Append(@, NextFn(piped))]
  /\ UNCHANGED <<cfg, load, cache, execs, task, lastRun, arrivals, expiries, produced,
                 keyReq, keyRes>>

\* the function that was called returns, or the promise it returned
\* resolves: that is the result of its callback
PipeSettle ==
  /\ piped.phase = "pending"
  /\ piped.running
  /\ LET i == piped.started[Len(piped.started)]
     IN piped' = [piped EXCEPT !.running = FALSE, !.pos = @ + 1,
                               !.result = ApplyFn(piped.fns[i], @),
                               !.phase = IF piped.pos + 1 = Len(piped.fns)
                                         THEN "resolved" ELSE "pending"]
  /\ UNCHANGED <<cfg, load, cache, execs, task, lastRun, arrivals, expiries, produced,
                 keyReq, keyRes>>

PipeNext ==
  \/ PipeCall
  \/ PipeInvoke
  \/ PipeSettle

PipeSpec == PipeInit /\ [][PipeNext]_vars

(***************************************************************************)
(* Properties                                                              *)
(***************************************************************************)
Skeletons == {"fallbackArtifact", "fallbackRender"}

\* C1: requests that miss on one non-null key share one execution of the
\* producer: no two generators are ever in flight for the same key, and
\* all callers answered by one generator receive the same result
C1_SingleFlight ==
  /\ \A e1, e2 \in execs : (e1.key # NullKey /\ e1.key = e2.key) => e1 = e2
  /\ \A r1, r2 \in Reqs :
       (/\ task[r1].pc = "respond" /\ task[r2].pc = "respond"
        /\ task[r1].got.from # 0 /\ task[r1].got.from = task[r2].got.from)
       => task[r1].got = task[r2].got

\* two requests missed on the same key and were answered by one generator
C1_Witness ==
  /\ task[1].pc = "respond" /\ task[2].pc = "respond"
  /\ task[1].key = UrlPath /\ task[2].key = UrlPath
  /\ task[1].got.isMiss /\ task[2].got.isMiss
  /\ task[1].got.tag = "entry"
  /\ task[1].got.from # 0 /\ task[1].got.from = task[2].got.from

\* C2: with the manifest's fallback null (blocking) the producer, run on a
\* miss, never takes the skeleton or NoFallbackError branch, and an entry
\* it returns comes out of doRender as a full render
C2_BlockingNeverSkeleton ==
  (lastRun.ran /\ lastRun.declared = "blocking" /\ ~lastRun.hadCache)
  => /\ lastRun.branch \notin {"getFallback", "fallbackRender", "NoFallbackError"}
     /\ lastRun.result.tag = "entry"
        => (lastRun.doRender /\ lastRun.result.entry.html \notin Skeletons)

\* the producer of a blocking-fallback page ran on a miss and returned a page
C2_Witness ==
  /\ lastRun.ran /\ lastRun.declared = "blocking" /\ ~lastRun.hadCache
  /\ ~lastRun.cl.isBotRequest /\ ~lastRun.cl.isManualRevalidate /\ ~cfg.minimalMode
  /\ lastRun.cl.key # NullKey
  /\ lastRun.result.tag = "entry" /\ lastRun.result.entry.kind = "PAGE"

\* C3: for a bot request to a page whose declared fallback is static the
\* producer's fallback mode is blocking, whatever else the request carries
C3_BotBlocking ==
  (lastRun.ran /\ lastRun.cl.isBotRequest /\ lastRun.declared = "static")
  => lastRun.mode = "blocking"

\* the producer ran for a bot on a static-fallback page
C3_Witness ==
  /\ lastRun.ran /\ lastRun.cl.isBotRequest /\ lastRun.declared = "static"
  /\ ~lastRun.cl.isManualRevalidate /\ ~lastRun.hadCache /\ lastRun.cl.key # NullKey

\* C4: no bot request is ever answered with a skeleton
C4_BotNeverSkeleton ==
  \A r \in Reqs :
    (task[r].pc = "done" /\ task[r].req.isBotRequest) => task[r].body.html \notin Skeletons

C6_ManualRevalidateBlocks ==
  (/\ lastRun.ran /\ lastRun.cl.isManualRevalidate
   /\ (lastRun.declared # "false" \/ lastRun.hadCache)
   /\ lastRun.branch # "skip404")
  => /\ lastRun.mode = "blocking"
     /\ lastRun.branch = "fullRender"
     /\ lastRun.doRender
     /\ lastRun.result.error # "NoFallbackError"
     /\ lastRun.result.tag = "entry"
        => (/\ lastRun.result.entry.html \notin Skeletons
            /\ lastRun.result.entry.revalidate.defined)

\* a manual revalidate of a static-fallback page without entry was rendered
C6_Witness ==
  /\ lastRun.ran /\ lastRun.cl.isManualRevalidate
  /\ lastRun.declared = "static" /\ ~lastRun.hadCache
  /\ ~lastRun.cl.isBotRequest /\ ~lastRun.cl.isPreviewMode /\ ~lastRun.cl.isDataReq
  /\ ~cfg.minimalMode /\ lastRun.cl.key = UrlPath
  /\ lastRun.result.tag = "entry" /\ lastRun.result.entry.kind = "PAGE"

\* the producer ran on a miss in production for a request that is neither
\* preview nor manual revalidate, for the dynamic page with fallback disabled
DisabledFallbackMiss ==
  /\ lastRun.ran /\ ~cfg.dev
  /\ ~lastRun.cl.isPreviewMode /\ ~lastRun.cl.isManualRevalidate
  /\ IsDynamicRoute(lastRun.cl.page) /\ HasStaticPaths(lastRun.cl.page)
  /\ lastRun.declared = "false"
  /\ ~lastRun.hadCache /\ ~lastRun.hasResolved

KeyPreview(i) ==
  IsPreviewMode(keyReq[i].previewCookie, keyReq[i].hasServerProps, keyReq[i].isSSG)

\* opts.supportsDynamicHTML stays on for request i
KeyDynamicHTML(i) ==
  SupportsDynamicHTML(~keyReq[i].isBotRequest, keyReq[i].isSSG, FALSE,
                      keyReq[i].isBotRequest, keyReq[i].amp, TRUE)

\* page ids the key derivation singles out
KeySpecialPages == {"/", "/404", "/500"}

\* C9: the derived key is null for every preview request, every page that
\* is not SSG, every request whose dynamic-HTML support stays on and
\* every flight request, whatever the page id
C9_BypassHasNullKey ==
  \A i \in {1, 2} :
    (/\ keyReq[i] # NoKeyInput
     /\ (KeyPreview(i) \/ ~keyReq[i].isSSG \/ KeyDynamicHTML(i) \/ keyReq[i].flight))
    => keyRes[i].key = NullKey

\* C10 as stated: two requests outside preview mode that agree on locale,
\* resolved path and amp derive the same key
C10_KeyOfPathAlone ==
  (/\ keyReq[1] # NoKeyInput /\ keyReq[2] # NoKeyInput
   /\ keyReq[1].locale = keyReq[2].locale
   /\ keyReq[1].resolved = keyReq[2].resolved
   /\ keyReq[1].amp = keyReq[2].amp
   /\ ~KeyPreview(1) /\ ~KeyPreview(2))
  => keyRes[1].key = keyRes[2].key

\* C10: two requests outside preview mode, neither a flight request, for
\* pages with the same SSG flag other than /, /404 and /500, that agree
\* on locale, resolved path and amp derive the same key (or both fail to
\* decode), whatever page id and user agent each has
C10_KeyFunction ==
  (/\ keyReq[1] # NoKeyInput /\ keyReq[2] # NoKeyInput
   /\ keyReq[1].locale = keyReq[2].locale
   /\ keyReq[1].resolved = keyReq[2].resolved
   /\ keyReq[1].amp = keyReq[2].amp
   /\ ~KeyPreview(1) /\ ~KeyPreview(2)
   /\ ~keyReq[1].flight /\ ~keyReq[2].flight
   /\ keyReq[1].isSSG = keyReq[2].isSSG
   /\ keyReq[1].pathname \notin KeySpecialPages
   /\ keyReq[2].pathname \notin KeySpecialPages)
  => keyRes[1] = keyRes[2]

\* a browser and a bot asked different SSG pages for one path and derived
\* one non-null key
C10_Witness ==
  /\ keyReq[1] # NoKeyInput /\ keyReq[2] # NoKeyInput
  /\ ~KeyPreview(1) /\ ~KeyPreview(2)
  /\ ~keyReq[1].flight /\ ~keyReq[2].flight
  /\ keyReq[1].isSSG /\ keyReq[2].isSSG
  /\ keyReq[1].pathname = DynamicPage /\ keyReq[2].pathname = CatchAllPage
  /\ keyReq[1].isBotRequest /\ ~keyReq[2].isBotRequest
  /\ keyReq[1].resolved = UrlPath /\ keyReq[1].locale = "en" /\ keyReq[1].amp
  /\ keyRes[1].key # NullKey /\ keyRes[1] = keyRes[2]

\* the (locale, resolved path, format) triple of request i
KeyTriple(i) == <<keyReq[i].locale, keyReq[i].resolved, keyReq[i].amp>>

\* C11: two requests whose (locale, resolved path, format) triples differ
\* never derive the same non-null key; stated for pages other than the
\* root page and the status pages, whose keys the derivation collapses on
\* purpose
C11_KeyIdentifiesTriple ==
  (/\ keyReq[1] # NoKeyInput /\ keyReq[2] # NoKeyInput
   /\ keyReq[1].pathname \notin KeySpecialPages
   /\ keyReq[2].pathname \notin KeySpecialPages
   /\ KeyTriple(1) # KeyTriple(2)
   /\ ~keyRes[1].threw /\ ~keyRes[2].threw
   /\ keyRes[1].key # NullKey)
  => keyRes[1].key # keyRes[2].key

\* the status pages
StatusPages == {"/404", "/500"}

\* the key of a status page: locale prefix, status path, format suffix
StatusPageKey(i) ==
  LocalePrefix(keyReq[i].locale) \o PathTokens(keyReq[i].pathname) \o AmpSuffix(keyReq[i].amp)

\* C12 as stated: every rendering of /404 or /500 derives the locale
\* prefix followed by the status path, SSG or not
C12_StatusKeyForEveryStatusPage ==
  \A i \in {1, 2} :
    (keyReq[i] # NoKeyInput /\ keyReq[i].pathname \in StatusPages)
    => keyRes[i].key = StatusPageKey(i)

\* C12: every rendering of an SSG /404 or /500 derives the locale prefix
\* followed by the status path (and .amp in the amp format), whatever the
\* resolved path is; a status page that is not SSG has a null key
C12_StatusKey ==
  \A i \in {1, 2} :
    (keyReq[i] # NoKeyInput /\ keyReq[i].pathname \in StatusPages)
    => /\ ~keyRes[i].threw
       /\ keyRes[i].key = IF keyReq[i].isSSG THEN StatusPageKey(i) ELSE NullKey

\* the SSG 404 page was rendered for two different paths under one locale
C12_Witness ==
  /\ keyReq[1] # NoKeyInput /\ keyReq[2] # NoKeyInput
  /\ keyReq[1].pathname = "/404" /\ keyReq[2].pathname = "/404"
  /\ keyReq[1].isSSG /\ keyReq[2].isSSG
  /\ keyReq[1].locale = "en" /\ keyReq[2].locale = "en"
  /\ keyReq[1].resolved = UrlPath /\ keyReq[2].resolved = <<"/", "a", "%2F", "b">>
  /\ keyRes[1].key = <<"/", "en", "/", "404">> /\ keyRes[2].key = keyRes[1].key

\* the resolved paths of the root page
RootPaths == { <<"/">>, <<"/", "index">> }

C13_WitnessLocale ==
  /\ keyReq[1] # NoKeyInput /\ keyReq[2] # NoKeyInput
  /\ keyReq[1].pathname = "/" /\ keyReq[2].pathname = "/"
  /\ keyReq[1].isSSG /\ ~KeyPreview(1) /\ ~keyReq[1].flight /\ ~keyReq[1].amp
  /\ keyReq[2].isSSG /\ ~KeyPreview(2) /\ ~keyReq[2].flight /\ ~keyReq[2].amp
  /\ keyReq[1].locale = "en" /\ keyReq[2].locale = "en"
  /\ keyReq[1].resolved = <<"/">> /\ keyReq[2].resolved = <<"/", "index">>
  /\ keyRes[2].key = <<"/", "en">>

\* the producer returned a skeleton entry
ReturnedSkeleton ==
  /\ lastRun.ran
  /\ lastRun.branch \in {"getFallback", "fallbackRender"}
  /\ lastRun.result.tag = "entry"

\* C14: a skeleton entry the producer returns has no revalidate and is not
\* stored, and the store never holds a skeleton: an entry present under a
\* key is never a skeleton
C14_SkeletonNeverStored ==
  /\ ReturnedSkeleton
     => /\ ~lastRun.result.entry.revalidate.defined
        /\ ~cache[lastRun.cl.key].present
  /\ \A k \in Keys : cache[k].present => cache[k].entry.html \notin Skeletons

\* in development the producer returned an on-demand fallback render whose
\* render asked for a revalidate
C14_Witness ==
  /\ ReturnedSkeleton
  /\ lastRun.branch = "fallbackRender"
  /\ lastRun.rendered.defined
  /\ lastRun.result.entry.kind = "PAGE"
  /\ lastRun.result.entry.html \in Skeletons

\* C15: an entry returned by a full render has a defined revalidate: the
\* renderer's when the renderer gave one (false and 0 included), the
\* default 1 when the renderer left it undefined
C15_FullRenderRevalidate ==
  (lastRun.ran /\ lastRun.branch = "fullRender" /\ lastRun.result.tag = "entry")
  => /\ lastRun.result.entry.revalidate.defined
     /\ lastRun.result.entry.revalidate =
          IF lastRun.rendered.defined THEN lastRun.rendered ELSE RevSeconds(1)

\* a full render whose renderer asked for revalidate 0 returned its entry
C15_Witness ==
  /\ lastRun.ran /\ lastRun.branch = "fullRender" /\ lastRun.result.tag = "entry"
  /\ lastRun.rendered = RevSeconds(0)
  /\ lastRun.result.entry.revalidate = RevSeconds(0)

\* C16 as stated: a request that had a non-null key and got no entry from
\* the store always raises the invariant error
C16_NoEntryAlwaysRaises ==
  \A r \in Reqs :
    "noEntryForKey" \in task[r].saw => "InvariantNoCacheEntry" \in task[r].saw

\* C16: a request that had a non-null key and got no entry from the store
\* raises the invariant error, unless it is a manual revalidate with
\* revalidate-only-generated, which gets null back without an error
C16_NoEntryRaises ==
  \A r \in Reqs :
    "noEntryForKey" \in task[r].saw
    => ("InvariantNoCacheEntry" \in task[r].saw
        <=> ~(task[r].req.manual /\ task[r].req.onlyGenerated))

\* a plain request with a key got no entry and the invariant error was raised
C16_Witness ==
  \E r \in Reqs :
    /\ "noEntryForKey" \in task[r].saw
    /\ "InvariantNoCacheEntry" \in task[r].saw
    /\ ~task[r].req.manual

\* C17: with a null key the producer always goes to doRender: it takes
\* neither the 404 skip nor the skeleton nor the NoFallbackError branch
C17_NullKeyAlwaysRenders ==
  (lastRun.ran /\ lastRun.cl.key = NullKey)
  => (lastRun.branch = "fullRender" /\ lastRun.doRender)

\* the request's handler has a PAGE entry to serve and nothing is sent yet
ServesPage(r) ==
  /\ task[r].pc = "respond"
  /\ task[r].got.tag = "entry"
  /\ task[r].got.entry.kind = "PAGE"
  /\ ~task[r].sent

\* C18: a PAGE entry served to a data request gives a JSON payload whose
\* body is the serialization of the entry's pageData; served to any other
\* request it gives an HTML payload whose body is the entry's html
C18_PagePayload ==
  [][\A r \in Reqs :
       (ServesPage(r) /\ task'[r] # task[r])
       => IF task[r].isDataReq
          THEN /\ task'[r].type = "json"
               /\ task'[r].body.data = JSONStringify(task[r].got.entry.pageData)
               /\ task'[r].body.html = "none"
          ELSE /\ task'[r].type = "html"
               /\ task'[r].body.html = task[r].got.entry.html
               /\ task'[r].body.data = <<>>]_vars

\* a data request was answered from a rendered PAGE entry
C18_Witness ==
  \E r \in Reqs :
    /\ task[r].pc = "done"
    /\ task[r].isDataReq
    /\ task[r].type = "json"
    /\ task[r].body.kind = "pageData"
    /\ task[r].body.data = <<"{", "pageProps", "}">>

\* the request's handler has a not-found entry for a data request
ServesNotFoundData(r) ==
  /\ task[r].pc = "respond"
  /\ task[r].got.tag = "entry"
  /\ task[r].got.entry.kind = "NOT_FOUND"
  /\ task[r].isDataReq

\* C19: a data request whose entry is not-found gets status 404 and the
\* body {"notFound":true}; the handler returns no payload and does not
\* render the 404 page
C19_NotFoundData ==
  [][\A r \in Reqs :
       (ServesNotFoundData(r) /\ task'[r] # task[r])
       => /\ task'[r].status = 404
          /\ task'[r].sent
          /\ task'[r].body.data = <<"{", "notFound", ":", "true", "}">>
          /\ task'[r].type = task[r].type
          /\ task'[r].pc \in {"done", "unwind"}
          /\ task'[r].page = task[r].page
          /\ task'[r].origin = task[r].origin]_vars

\* a data request ended with the not-found body
C19_Witness ==
  \E r \in Reqs :
    /\ task[r].pc = "done"
    /\ task[r].req.dataReq
    /\ "notFoundJson" \in task[r].saw
    /\ task[r].status = 404
    /\ task[r].body.kind = "notFoundJson"
    /\ task[r].type = "none"

\* a request that arrived as a data request has been answered by the
\* handler of one of the dispatcher's candidates, not by a page that wrote
\* the response itself
AnsweredByCandidate(r) ==
  /\ task[r].pc = "done"
  /\ task[r].req.dataReq
  /\ task[r].origin = "route"
  /\ task[r].sent
  /\ task[r].body.kind # "byPage"
  /\ task[r].thrown = "none"

\* the answer is JSON: a JSON payload, or the not-found body
JsonAnswer(r) == task[r].type = "json" \/ task[r].body.kind = "notFoundJson"

\* C20 as stated: a request that arrives as a data request is answered with
\* JSON whichever candidate serves it
C20_DataRequestAlwaysJson ==
  \A r \in Reqs : AnsweredByCandidate(r) => JsonAnswer(r)

\* C20: a request that arrives as a data request is answered with JSON by
\* whichever candidate serves it, when that candidate's page has
\* getStaticProps or getServerSideProps; a candidate tried after an earlier
\* one was rejected still sees the data request
C20_DataRequestJson ==
  \A r \in Reqs :
    (AnsweredByCandidate(r) /\ HasDataMethod(task[r].page)) => JsonAnswer(r)

\* the catch-all page answered a data request with JSON after the dynamic
\* page before it was rejected
C20_Witness ==
  \E r \in Reqs :
    /\ AnsweredByCandidate(r)
    /\ task[r].cand = 2
    /\ task[r].page = CatchAllPage
    /\ HasServerProps(CatchAllPage)
    /\ task[r].type = "json"
    /\ task[r].body.kind = "pageData"

CacheStatuses == {"MISS", "STALE", "HIT", "REVALIDATED"}

\* a request has been answered by the handler of one of the dispatcher's
\* candidates
AnsweredByPage(r) ==
  /\ task[r].pc = "done"
  /\ task[r].origin = "route"
  /\ task[r].sent
  /\ task[r].thrown = "none"

\* C21 as stated: every response for an SSG page carries a cache status and
\* no response for a page that is not SSG carries one
C21_StatusOnEverySSGResponse ==
  \A r \in Reqs :
    AnsweredByPage(r)
    => IF IsSSGPage(task[r].page)
       THEN task[r].header \in CacheStatuses
       ELSE task[r].header = "none"

\* the handler of the request has a cache entry to serve
ServesEntry(r) ==
  /\ task[r].pc = "respond"
  /\ task[r].got.tag = "entry"

\* C21: outside minimal mode the handler that serves a cache entry for an
\* SSG page sets exactly one cache status: REVALIDATED for a manual
\* revalidate, otherwise MISS for a miss, otherwise STALE for a stale entry,
\* otherwise HIT; in minimal mode and for a page that is not SSG it sets none
C21_CacheStatus ==
  [][\A r \in Reqs :
       (ServesEntry(r) /\ task'[r] # task[r])
       => IF IsSSGPage(task[r].page) /\ ~cfg.minimalMode
          THEN task'[r].header =
                 (IF task[r].req.manual THEN "REVALIDATED"
                  ELSE IF task[r].got.isMiss THEN "MISS"
                  ELSE IF task[r].got.isStale THEN "STALE"
                  ELSE "HIT")
          ELSE task'[r].header = task[r].header]_vars

\* a manual revalidate of an SSG page was answered as REVALIDATED
C21_Witness ==
  \E r \in Reqs :
    /\ AnsweredByPage(r)
    /\ IsSSGPage(task[r].page)
    /\ task[r].req.manual
    /\ task[r].header = "REVALIDATED"

\* C22: candidates are tried in a fixed order, the literal page first and
\* then the matching dynamic routes in table order; a candidate is rendered
\* only after every earlier matching candidate was tried and rejected, and
\* the candidate that yields a result ends the walk
C22_CandidateOrder ==
  \A r \in Reqs :
    LET tr == task[r].tried
    IN /\ \A i \in 1..Len(tr) :
            /\ CandidateApplies(tr[i])
            /\ \A j \in 0..(tr[i] - 1) :
                 CandidateApplies(j) => j \in task[r].rejected
            /\ i < Len(tr) => (tr[i] < tr[i + 1] /\ tr[i] \in task[r].rejected)
       /\ AnsweredByPage(r)
          => /\ tr # <<>>
             /\ task[r].page = CandidatePage(tr[Len(tr)])
             /\ tr[Len(tr)] \notin task[r].rejected

\* the dynamic page was tried and rejected, then the catch-all page
\* answered
C22_Witness ==
  \E r \in Reqs :
    /\ AnsweredByPage(r)
    /\ task[r].tried = <<1, 2>>
    /\ task[r].rejected = {1}
    /\ task[r].page = CatchAllPage

\* the literal page answered and no dynamic route was tried
C22_WitnessLiteral ==
  \E r \in Reqs :
    /\ AnsweredByPage(r)
    /\ task[r].tried = <<0>>
    /\ task[r].page = LiteralPage

\* a candidate of the request raised NoFallbackError and the request is over
NoFallbackRaised(r) ==
  /\ task[r].pc = "done"
  /\ "NoFallbackError" \in task[r].saw

C24_BubbleNoFallback ==
  \A r \in Reqs :
    (NoFallbackRaised(r) /\ task[r].req.bubbleNoFallback)
    => /\ task[r].thrown = "NoFallbackError"
       /\ task[r].origin = "route"
       /\ task[r].rejected = {}
       /\ Len(task[r].tried) = 1
       /\ "exhausted" \notin task[r].saw

\* the last candidate raised NoFallbackError for a bubbling caller
C24_Witness ==
  \E r \in Reqs :
    /\ NoFallbackRaised(r)
    /\ task[r].req.bubbleNoFallback
    /\ ~cfg.hasCatchAll
    /\ task[r].page = DynamicPage
    /\ task[r].thrown = "NoFallbackError"

\* the walk of the request's candidates ends in this step without a result
Exhausts(r) ==
  /\ "exhausted" \notin task[r].saw
  /\ "exhausted" \in task'[r].saw

\* the 404 path is entered: status 404, renderErrorToResponse against /404
\* when that page exists, else /_error
Enters404Path(r) ==
  /\ task'[r].status = 404
  /\ task'[r].origin = "errorDirect"
  /\ task'[r].pc = "render"
  /\ task'[r].page = IF PageExists("/404") THEN "/404" ELSE "/_error"

\* C25 as stated: every exhausted walk forces status 404 and renders the
\* error page
C25_ExhaustedAlways404 ==
  [][\A r \in Reqs : Exhausts(r) => Enters404Path(r)]_vars

\* C25: an exhausted walk forces status 404 and renders /404 when that page
\* exists, else /_error, unless the server has a catch-all middleware and
\* the request carries x-nextjs-data: then the answer is status 200 with an
\* empty JSON object and no error page
C25_Exhausted404 ==
  [][\A r \in Reqs :
       Exhausts(r)
       => IF cfg.hasMiddleware /\ task[r].req.nextjsDataHeader
          THEN /\ task'[r].status = 200
               /\ task'[r].body.data = <<"{", "}">>
               /\ task'[r].pc = "done"
               /\ task'[r].origin = "route"
          ELSE Enters404Path(r)]_vars

\* the walk was exhausted and the /404 page answered with status 404
C25_Witness ==
  \E r \in Reqs :
    /\ task[r].pc = "done"
    /\ "exhausted" \in task[r].saw
    /\ "errorPage" \in task[r].saw
    /\ task[r].page = "/404"
    /\ task[r].status = 404
    /\ task[r].sent

\* a DecodeError was raised while the request was served and the request
\* is over
DecodeErrorRaised(r) ==
  /\ task[r].pc = "done"
  /\ "DecodeError" \in task[r].saw

RenderErrorRaised(r) ==
  /\ task[r].pc = "done"
  /\ task[r].err = "RenderError"

\* production: neither dev nor minimal mode
Production == ~cfg.dev /\ ~cfg.minimalMode

\* C27: in production an error of the renderer gives status 500 and the
\* rendered error page, /500 when it exists, else /_error; when rendering
\* the error page fails too the body is the static 'Internal Server
\* Error'; the error is not rethrown and the request ends with a response
C27_ProductionErrorPage ==
  \A r \in Reqs :
    (RenderErrorRaised(r) /\ Production)
    => /\ task[r].status = 500
       /\ task[r].sent
       /\ task[r].thrown = "none"
       /\ task[r].uncaught = "none"
       /\ task[r].origin = "errorDirect"
       /\ task[r].page = IF cfg.page500 THEN "/500" ELSE "/_error"
       /\ task[r].body.kind = "byPage"
          \/ IF "errorPageFailed" \in task[r].saw
             THEN task[r].body.kind = "InternalServerError"
             ELSE task[r].body.kind \in {"html", "static"}

\* a renderer error in production was answered by the /500 page
C27_Witness ==
  \E r \in Reqs :
    /\ RenderErrorRaised(r)
    /\ Production
    /\ task[r].page = "/500"
    /\ task[r].status = 500
    /\ task[r].body.kind = "static"

\* a renderer error in production ended with the static body after the
\* error page failed too
C27_WitnessStatic ==
  \E r \in Reqs :
    /\ RenderErrorRaised(r)
    /\ Production
    /\ "errorPageFailed" \in task[r].saw
    /\ task[r].body.kind = "InternalServerError"

\* C28: in dev and in minimal mode an error of the renderer is rethrown to
\* the caller of the dispatcher as it was raised; no error-page payload is
\* made of it
C28_DevRethrows ==
  \A r \in Reqs :
    (RenderErrorRaised(r) /\ ~Production)
    => /\ task[r].thrown = "RenderError"
       /\ task[r].uncaught = "RenderError"
       /\ task[r].origin \in {"route", "errorCustom"}
       /\ task[r].type = "none"
       /\ "errorPage" \notin task[r].saw

\* a renderer error on a dev server was rethrown
C28_Witness ==
  \E r \in Reqs :
    /\ RenderErrorRaised(r)
    /\ cfg.dev
    /\ task[r].thrown = "RenderError"
    /\ ~task[r].sent

\* the request met an error that is fatal by design: a DecodeError, or the
\* invariant error of a key without entry
FatalByDesign(r) ==
  \/ "DecodeError" \in task[r].saw
  \/ "InvariantNoCacheEntry" \in task[r].saw

\* C29: a request that met an error that is fatal by design never goes
\* through the error-page render of renderErrorToResponse
C29_FatalErrorsSkipErrorPage ==
  \A r \in Reqs :
    FatalByDesign(r) => task[r].origin \notin {"errorDirect", "errorCustom"}

\* a candidate of the request raised MissingStaticPage and the request is
\* over
MissingStaticPageRaised(r) ==
  /\ task[r].pc = "done"
  /\ "MissingStaticPage" \in task[r].saw

\* C30: a MissingStaticPage raised by a candidate is rethrown by the
\* dispatcher in every mode: no candidate is tried after it and no error
\* page is rendered for it
C30_MissingStaticPageRethrown ==
  \A r \in Reqs :
    MissingStaticPageRaised(r)
    => /\ task[r].thrown = "MissingStaticPage"
       /\ task[r].origin = "route"
       /\ task[r].rejected = {}
       /\ Len(task[r].tried) = 1
       /\ "exhausted" \notin task[r].saw
       /\ "errorPage" \notin task[r].saw
       /\ task[r].type = "none"
       /\ task[r].status # 404

\* the html file of the literal page was missing on a production server
\* with a /500 page
C30_Witness ==
  \E r \in Reqs :
    /\ MissingStaticPageRaised(r)
    /\ Production
    /\ cfg.page500
    /\ task[r].page = LiteralPage
    /\ task[r].thrown = "MissingStaticPage"

\* fn(...f2(f1(x))): the functions applied to x one inside the other, the
\* first innermost
RECURSIVE Nested(_, _)
Nested(fns, x) ==
  IF fns = <<>> THEN x
  ELSE ApplyFn(fns[Len(fns)], Nested(SubSeq(fns, 1, Len(fns) - 1), x))

\* C40: pipe(f1, ..., fn)(x) resolves to fn(...f2(f1(x))): the functions
\* are started strictly left to right, each one only after the result of
\* the one before it has resolved, and with no functions the result is the
\* input unchanged
C40_PipeLeftToRight ==
  /\ \A i \in 1..Len(piped.started) : piped.started[i] = i
  /\ Len(piped.started) = IF piped.running THEN piped.pos + 1 ELSE piped.pos
  /\ piped.phase = "resolved"
     => /\ piped.result = Nested(piped.fns, piped.param)
        /\ Len(piped.started) = Len(piped.fns)
        /\ piped.fns = <<>> => piped.result = piped.param

\* a call with three functions that do not commute has resolved
C40_Witness ==
  /\ piped.phase = "resolved"
  /\ piped.fns = <<"zero", "inc", "dbl">>
  /\ piped.param = 3
  /\ piped.started = <<1, 2, 3>>
  /\ piped.result = 2

\* a call without functions has returned its input
C40_WitnessEmpty ==
  /\ piped.phase = "resolved"
  /\ piped.fns = <<>>
  /\ piped.param = 2
  /\ piped.result = 2

\* the handler of the request has an image value to serve
ServesImage(r) ==
  /\ ServesEntry(r)
  /\ task[r].got.entry.kind = "IMAGE"

\* C31: an entry of kind IMAGE that the store returns for a page is never
\* turned into a payload: the handler raises the invariant error, and
\* neither sends nor returns HTML or JSON made of the entry
C31_ImageNeverServed ==
  [][\A r \in Reqs :
       (ServesImage(r) /\ task'[r] # task[r])
       => /\ "InvariantImage" \in task'[r].saw
          /\ task'[r].type = task[r].type
          /\ task'[r].body = task[r].body
          /\ task'[r].sent = task[r].sent
          /\ task'[r].status # 200]_vars

\* the store returned an image value for the dynamic page and the request
\* ended with the invariant error raised
C31_Witness ==
  \E r \in Reqs :
    /\ task[r].pc = "done"
    /\ "InvariantImage" \in task[r].saw
    /\ task[r].tried = <<1>>
    /\ task[r].status = 500

\* the generators this step starts
StartedGenerators == { e \in execs' : \A x \in execs : x.id # e.id }

\* the handler of request r calls responseCache.get in this step and is
\* answered a stale entry while a generator is in flight for its key
OverlappingStaleHit(r) ==
  /\ task[r].pc = "render"
  /\ task'[r].pc = "respond"
  /\ task'[r].got.isStale
  /\ InFlight(task'[r].key) # {}

\* C32: a stale hit that overlaps a regeneration in flight for its key
\* starts no other one, so that one key never has two generators; a
\* generator is started only by a handler's one call of responseCache.get,
\* one at most per call, and the renderer runs only inside a generator the
\* store started
C32_OneRegeneration ==
  [][/\ Cardinality(StartedGenerators) <= 1
     /\ \A e \in StartedGenerators :
          /\ InFlight(e.key) = {}
          /\ task[e.owner].pc = "render"
          /\ task'[e.owner].pc \in {"respond", "wait"}
     /\ \A r \in Reqs : OverlappingStaleHit(r) => StartedGenerators = {}
     /\ (lastRun'.ran /\ lastRun' # lastRun)
        => \E e \in execs : e.id = lastRun'.id /\ e.state = "running" /\ e \notin execs'
     /\ \A e1, e2 \in execs' :
          (e1.hasResolved /\ e2.hasResolved /\ e1.key = e2.key) => e1 = e2]_vars

\* two overlapping requests were both answered the stale entry of one key
\* and a single regeneration is in flight for it
C32_Witness ==
  /\ task[1].pc = "respond" /\ task[2].pc = "respond"
  /\ task[1].key = UrlPath /\ task[2].key = UrlPath
  /\ task[1].got.isStale /\ task[2].got.isStale
  /\ Cardinality(execs) = 1
  /\ \A e \in execs : e.hasResolved /\ e.key = UrlPath

\* the server has a step to take for a request that is being served: the
\* guards of Render, Respond, Produce and Resume
RequestStepEnabled ==
  \/ \E r \in Reqs : task[r].pc \in {"render", "respond"}
  \/ \E e \in execs : e.state = "running"
  \/ \E e \in execs :
       /\ e.state = "suspended"
       /\ task[e.owner].pc = "unwind"
       /\ Head(task[e.owner].outer) = e.id

\* C35: every request terminates with a response or a raised error: as long
\* as a request is being served the server has a step to take for it, and
\* render404 is entered at most twice inside producers of one request
C35_RequestsTerminate ==
  \A r \in Reqs :
    /\ task[r].pc \in {"idle", "done"} \/ RequestStepEnabled
    /\ Len(task[r].outer) <= 2

\* C33: within one execution of the producer the fallback mode only moves
\* towards blocking: it leaves the producer as the declared mode or as
\* blocking, and it differs from the declared mode only for a bot on a
\* page declared static or for a manual revalidate
C33_ModeOnlyEscalates ==
  lastRun.ran
  => /\ lastRun.mode \in {lastRun.declared, "blocking"}
     /\ lastRun.mode # lastRun.declared
        => \/ lastRun.cl.isBotRequest /\ lastRun.declared = "static"
           \/ lastRun.cl.isManualRevalidate
     /\ (lastRun.declared = "static" /\ lastRun.cl.isBotRequest) => lastRun.mode = "blocking"

\* a manual revalidate of a page declared static, for a path without
\* entry, ran the producer in blocking mode
C33_Witness ==
  /\ lastRun.ran
  /\ lastRun.declared = "static"
  /\ lastRun.cl.isManualRevalidate
  /\ ~lastRun.cl.revalidateOnlyGenerated
  /\ ~lastRun.cl.isBotRequest
  /\ ~lastRun.hadCache
  /\ lastRun.mode = "blocking"

\* C34: an execution of the producer that runs after a response was begun
\* (hasResolved, or res.sent) takes neither the skeleton nor the
\* NoFallbackError branch: apart from the manual-revalidate 404 skip it
\* runs the full render
C34_NoSkeletonAfterResponse ==
  (lastRun.ran /\ (lastRun.hasResolved \/ lastRun.resSent))
  => /\ lastRun.branch \in {"fullRender", "skip404"}
     /\ lastRun.branch = "skip404"
        => (/\ lastRun.cl.isManualRevalidate /\ lastRun.cl.revalidateOnlyGenerated
            /\ ~lastRun.hadCache)
     /\ lastRun.branch = "fullRender"
        => /\ lastRun.doRender
           /\ lastRun.result.tag = "entry" => lastRun.result.entry.html \notin Skeletons
     /\ lastRun.result.error # "NoFallbackError"

\* the background regeneration after a stale hit of a browser ran the full
\* render for the dynamic page declared static
C34_Witness ==
  /\ lastRun.ran
  /\ lastRun.hasResolved
  /\ lastRun.cl.page = DynamicPage
  /\ lastRun.declared = "static"
  /\ ~lastRun.cl.isBotRequest /\ ~lastRun.cl.isPreviewMode /\ ~lastRun.cl.isDataReq
  /\ lastRun.cl.key = UrlPath
  /\ ~cfg.minimalMode
  /\ lastRun.branch = "fullRender"
  /\ lastRun.result.tag = "entry"

\* C36: the producer raises NoFallbackError or returns a skeleton only for
\* a page id that is a dynamic route, never for /404, /500 or /_error, and
\* renderErrorToResponse never reaches its 'invariant: failed to render
\* error page' error
C36_FallbackOnlyForDynamicRoutes ==
  /\ (lastRun.ran /\ lastRun.branch \in {"NoFallbackError", "getFallback", "fallbackRender"})
     => IsDynamicRoute(lastRun.cl.page)
  /\ \A r \in Reqs :
       /\ "failedToRenderErrorPage" \notin task[r].saw
       /\ (task[r].pc = "respond" /\ task[r].origin # "route")
          => (task[r].got.error # "NoFallbackError"
              /\ task[r].got.entry.html \notin Skeletons)

\* in production the producer ran for the SSG /404 page, with a key and
\* without a stored entry, and rendered it in full
C36_Witness ==
  /\ lastRun.ran
  /\ lastRun.cl.page = "/404"
  /\ lastRun.cl.key = StatusKey
  /\ ~lastRun.hadCache /\ ~lastRun.hasResolved /\ ~lastRun.resSent
  /\ ~lastRun.cl.isManualRevalidate /\ ~lastRun.cl.isPreviewMode
  /\ ~cfg.dev /\ ~cfg.minimalMode
  /\ lastRun.mode = "false"
  /\ lastRun.branch = "fullRender"

\* C38: in minimal mode every execution of the producer runs the full
\* render: no skeleton, no NoFallbackError, no manual-revalidate 404 skip;
\* and no response carries a cache status
C38_MinimalModeAlwaysRenders ==
  cfg.minimalMode
  => /\ lastRun.ran
        => /\ lastRun.branch = "fullRender"
           /\ lastRun.doRender
           /\ lastRun.result.error # "NoFallbackError"
           /\ lastRun.result.tag = "entry" => lastRun.result.entry.html \notin Skeletons
     /\ \A r \in Reqs : task[r].header = "none" /\ "skip404" \notin task[r].saw

\* in minimal mode a manual revalidate with revalidate-only-generated of a
\* path without entry, on the page with fallback disabled, was rendered
C38_Witness ==
  /\ cfg.minimalMode
  /\ lastRun.ran
  /\ lastRun.cl.page = DynamicPage
  /\ lastRun.declared = "false"
  /\ lastRun.cl.isManualRevalidate /\ lastRun.cl.revalidateOnlyGenerated
  /\ ~lastRun.hadCache
  /\ lastRun.cl.key = UrlPath
  /\ lastRun.branch = "fullRender"
  /\ lastRun.result.tag = "entry"

\* C37: with bubbling requested, the NoFallbackError of any candidate, the
\* last one or not, leaves the dispatcher in the step that receives it: the
\* walk stops at that candidate, and neither the 404 page nor an error page
\* is rendered
C37_BubbleStopsWalk ==
  [][\A r \in Reqs :
       (/\ task[r].pc = "respond"
        /\ task[r].origin = "route"
        /\ task[r].got.error = "NoFallbackError"
        /\ task[r].req.bubbleNoFallback
        /\ task'[r] # task[r])
       => /\ task'[r].pc = "done"
          /\ task'[r].thrown = "NoFallbackError"
          /\ task'[r].tried = task[r].tried
          /\ task'[r].cand = task[r].cand
          /\ task'[r].page = task[r].page
          /\ task'[r].origin = "route"
          /\ task'[r].type = "none"
          /\ task'[r].body.kind \in {"none", "InternalServerError"}
          /\ task'[r].status # 404]_vars

\* the dynamic page raised NoFallbackError for a bubbling caller while the
\* catch-all page was still to be tried
C37_Witness ==
  \E r \in Reqs :
    /\ NoFallbackRaised(r)
    /\ task[r].req.bubbleNoFallback
    /\ cfg.hasCatchAll
    /\ CandidateApplies(2)
    /\ task[r].tried = <<1>>
    /\ task[r].page = DynamicPage
    /\ task[r].thrown = "NoFallbackError"

\* the request was rejected for its method and is over
MethodRejected(r) ==
  /\ task[r].pc = "done"
  /\ "methodNotAllowed" \in task[r].saw

\* C39 as stated: a request rejected for its method always ends with status
\* 405
C39_RejectedAlways405 ==
  \A r \in Reqs : MethodRejected(r) => task[r].status = 405

\* C39: a request with a method other than GET or HEAD to a static or SSG
\* page that is not a status page gets the Allow: GET, HEAD header and the
\* error page through renderError, with status 405 unless rendering the
\* error page fails too (then status 500); the handler returns no payload,
\* no later candidate is tried, and neither the store nor the renderer is
\* asked for the requested page
C39_MethodNotAllowed ==
  \A r \in Reqs :
    /\ (task[r].req.method \notin {"GET", "HEAD"} /\ task[r].pc \in {"wait", "respond"})
       => ~(IsStaticComponent(task[r].page) \/ IsSSGPage(task[r].page))
          \/ task[r].page \in {"/404", "/500", "/_error"}
    /\ (task[r].req.method \notin {"GET", "HEAD"} /\ task[r].pc = "done"
        /\ task[r].tried # <<>>
        /\ LET first == CandidatePage(task[r].tried[1])
           IN IsStaticComponent(first) \/ IsSSGPage(first))
       => "methodNotAllowed" \in task[r].saw
    /\ MethodRejected(r)
       => /\ task[r].req.method = "POST"
          /\ task[r].allow = <<"GET", "HEAD">>
          /\ task[r].status = IF "errorPageFailed" \in task[r].saw THEN 500 ELSE 405
          /\ task[r].origin = "errorPipe"
          /\ task[r].page = "/_error"
          /\ Len(task[r].tried) = 1
          /\ task[r].rejected = {}
          /\ task[r].header = "none"
          /\ task[r].body.kind \in {"html", "InternalServerError", "byPage", "none"}

\* a POST to the SSG dynamic page was answered by the error page with
\* status 405
C39_Witness ==
  \E r \in Reqs :
    /\ MethodRejected(r)
    /\ task[r].tried = <<1>>
    /\ task[r].status = 405
    /\ task[r].allow = <<"GET", "HEAD">>
    /\ task[r].page = "/_error"
    /\ task[r].body.kind = "html"

====
